---- MODULE Spec2Model ----
(***************************************************************************)
(* A model of the AI module of Social-skills-coach:                        *)
(*   - the training console (AI/training_ui.py): start requests, the       *)
(*     background training threads and the is_training guard;              *)
(*   - SocialSkillsModel.generate (AI/core/model.py): the decoding loop    *)
(*     with repetition penalty, temperature, top-k, top-p and sampling;    *)
(*   - SFTTrainer.train (AI/training/trainer.py): epochs, micro-batches,   *)
(*     gradient accumulation, optimizer steps and checkpoints.             *)
(* Each part has its own specification over the shared variables:          *)
(* SpecUI, SpecGen, SpecFilter (one loop iteration of generate, entered    *)
(* with every logit vector) and SpecTrain.                                 *)
(***************************************************************************)
EXTENDS Integers, Sequences, FiniteSets, TLC

VARIABLES
    \* ---- training console (training_ui.py)
    is_training,    \* training_state["is_training"]
    model_loaded,   \* the global `model` is not None
    req,            \* per start request: what the handler returned
    thread,         \* per start request: the train_thread it started
    \* ---- SocialSkillsModel.generate (core/model.py)
    weights,        \* the model's weights (fixed during generation)
    args,           \* the arguments of the generate call
    gen_pc,         \* position inside generate
    input_ids,      \* the batch: one token sequence per row
    n_iter,         \* completed iterations of `for _ in range(max_new_tokens)`
    raw_logits,     \* per row: outputs.logits[:, -1, :] of this iteration
    logits,         \* per row: the logits after each filter of this iteration
    \* ---- SFTTrainer (training/trainer.py)
    t_pc,           \* position inside SFTTrainer.train
    t_args,         \* the hyperparameters train() resolved
    epoch,          \* the loop variable epoch (self.epoch)
    step,           \* the loop variable step of enumerate(train_loader)
    global_step,    \* self.global_step
    best_eval_loss, \* self.best_eval_loss
    grads,          \* the micro-batches whose gradients the .grad buffers hold
    applied,        \* per optimizer.step(): the micro-batches it applied
    checkpoints,    \* the save_checkpoint calls, in order
    \* ---- the checkpoint directory (trainer.py save/load_checkpoint)
    disk,           \* per directory name: its files and their contents
    save_k,         \* how many save_checkpoint calls have written their files
    save_pc,        \* position inside the save_checkpoint call being written
    crashed,        \* the process died
    loaded,         \* what load_checkpoint read, if it was called
    \* ---- SocialSkillsModel objects (core/model.py __init__, save/from_pretrained)
    mdl,            \* the model instance built by SocialSkillsModel(...)
    mdl2,           \* the instance from_pretrained returned
    m_pc,           \* built, saved, loaded, decoding
    out_saved,      \* greedy decoding of a prompt by mdl
    out_loaded,     \* greedy decoding of the same prompt by mdl2
    \* ---- the forward pass (dataset.py __getitem__, model.py forward)
    sample,         \* a tokenized, padded TrainingExample and the two pad ids
    labels,         \* the labels ConversationDataset.__getitem__ returns
    ce,             \* what F.cross_entropy did with the shifted labels
    l_pc,           \* example, labelled, loss
    attn_in,        \* scores q.k of one head and the attention_mask
    attn_out,       \* the scores after masking and the softmax weights
    a_pc,           \* scores, attended
    \* ---- DPO (training/dpo_trainer.py, training_ui.py train_dpo_handler)
    d_pc,           \* position inside the DPO train_thread / DPOTrainer.train
    d_args,         \* num_epochs, len(train_loader), beta
    d_epoch,        \* the loop variable epoch
    d_step,         \* the loop variable step
    d_global_step,  \* self.global_step
    policy_w,       \* the weights of self.model, as a version number
    ref_w,          \* the weights of self.ref_model
    sched,          \* scheduler.step() calls so far (last_epoch)
    epoch_acc,      \* epoch_loss, epoch_chosen_rewards, epoch_rejected_rewards
    history,        \* self.training_history
    step_log,       \* per optimizer.step(): what it was computed from and did
    artifact,       \* the weights save_pretrained wrote to dpo_model
    dpo_in,         \* the arguments of a compute_dpo_loss call and beta
    dpo_out,        \* what compute_dpo_loss computed
    dl_pc,          \* args, computed
    \* ---- the dataset loaders (training/dataset.py _load_data)
    data_file,      \* the lines of the JSONL file
    ds_class,       \* conversation or preference
    examples,       \* self.examples
    ds_pc,          \* file, loaded, raised
    \* ---- the hyperparameters of SFTTrainer.train (trainer.py lines 56-98)
    hp_in,          \* the arguments as the caller passed them
    hp_out,         \* the values train() goes on with
    hp_pc,          \* new, resolved
    \* ---- the user service (Backend/app/services/user_service.py)
    users,          \* per email: the row of the users table, if any
    now,            \* datetime.utcnow(), in ticks
    last,           \* the last service call: its arguments, the row before, the result
    verified_ok,    \* the emails a verify_email call has returned True for
    \* ---- a started train_thread and the generation test (training_ui.py)
    run,            \* per start request: how far its train_thread has got
    model_mode,     \* the shared model's mode: "train" or "eval"
    generating      \* test_generation_handler is inside model.generate

uivars    == <<is_training, model_loaded, req, thread>>
genvars   == <<weights, args, gen_pc, input_ids, n_iter, raw_logits, logits>>
trainvars == <<t_pc, t_args, epoch, step, global_step, best_eval_loss, grads,
               applied, checkpoints>>
ckptvars  == <<disk, save_k, save_pc, crashed, loaded>>
modelvars == <<mdl, mdl2, m_pc, out_saved, out_loaded>>
fwdvars   == <<sample, labels, ce, l_pc, attn_in, attn_out, a_pc>>
dpovars   == <<d_pc, d_args, d_epoch, d_step, d_global_step, policy_w, ref_w,
               sched, epoch_acc, history, step_log, artifact, dpo_in, dpo_out,
               dl_pc>>
datavars  == <<data_file, ds_class, examples, ds_pc>>
hpvars    == <<hp_in, hp_out, hp_pc>>
usrvars   == <<users, now, last, verified_ok>>
runvars   == <<run, model_mode, generating>>
vars      == <<uivars, genvars, trainvars, ckptvars, modelvars, fwdvars, dpovars, datavars, hpvars, usrvars, runvars>>

\* what the actions of one part leave unchanged: every other part.
notUI    == <<genvars, trainvars, ckptvars, modelvars, fwdvars, dpovars, datavars, hpvars, usrvars, runvars>>
notGen   == <<uivars, trainvars, ckptvars, modelvars, fwdvars, dpovars, datavars, hpvars, usrvars, runvars>>
notTrain == <<uivars, genvars, ckptvars, modelvars, fwdvars, dpovars, datavars, hpvars, usrvars, runvars>>
notCkpt  == <<uivars, genvars, modelvars, fwdvars, dpovars, datavars, hpvars, usrvars, runvars>>
notModel == <<uivars, genvars, trainvars, fwdvars, dpovars, datavars, hpvars, usrvars, runvars>>
notFwd   == <<uivars, genvars, trainvars, ckptvars, modelvars, dpovars, datavars, hpvars, usrvars, runvars>>
notDPO   == <<uivars, genvars, trainvars, ckptvars, modelvars, fwdvars, datavars, hpvars, usrvars, runvars>>
notData  == <<uivars, genvars, trainvars, ckptvars, modelvars, fwdvars, dpovars, hpvars, usrvars, runvars>>
notHp    == <<uivars, genvars, trainvars, ckptvars, modelvars, fwdvars, dpovars, datavars, usrvars, runvars>>
notUsers == <<uivars, genvars, trainvars, ckptvars, modelvars, fwdvars, dpovars, datavars, hpvars, runvars>>
notRun   == <<uivars, genvars, trainvars, ckptvars, modelvars, fwdvars, dpovars, datavars, hpvars, usrvars>>
notUIRun == <<genvars, trainvars, ckptvars, modelvars, fwdvars, dpovars, datavars, hpvars, usrvars>>

(***************************************************************************)
(* Training console                                                        *)
(***************************************************************************)
MaxRequests == 3

Requests == 1..MaxRequests

NoThread == [kind |-> "none", pc |-> "none", result |-> "none"]

InitUI ==
    /\ is_training = FALSE
    /\ model_loaded = FALSE
    /\ req = [r \in Requests |-> "none"]
    /\ thread = [r \in Requests |-> NoThread]

\* load_model_handler: the global model becomes non-None.
load_model_handler ==
    /\ ~model_loaded
    /\ model_loaded' = TRUE
    /\ UNCHANGED <<is_training, req, thread>>

\* The three start handlers share one body: the is_training check, the
\* model check, the data file check (train_dpo_handler has none), then
\* threading.Thread(target=train_thread).start().  The handler itself never
\* writes is_training: only the thread does.
StartHandler(r, kind, file_exists) ==
    /\ req[r] = "none"
    /\ IF is_training
         THEN req' = [req EXCEPT ![r] = "rejected"] /\ UNCHANGED thread
       ELSE IF ~model_loaded
         THEN req' = [req EXCEPT ![r] = "no_model"] /\ UNCHANGED thread
       ELSE IF kind # "dpo" /\ ~file_exists
         THEN req' = [req EXCEPT ![r] = "no_file"] /\ UNCHANGED thread
       ELSE /\ req' = [req EXCEPT ![r] = "accepted"]
            /\ thread' = [thread EXCEPT
                   ![r] = [kind |-> kind, pc |-> "started", result |-> "none"]]
    /\ UNCHANGED <<is_training, model_loaded>>

train_sft_handler(r) ==
    \E file_exists \in BOOLEAN : StartHandler(r, "sft", file_exists)

train_dpo_handler(r) == StartHandler(r, "dpo", TRUE)

train_on_documents_handler(r) ==
    \E file_exists \in BOOLEAN : StartHandler(r, "docs", file_exists)

\* train_thread, first statement: training_state["is_training"] = True.
ThreadBegin(r) ==
    /\ thread[r].pc = "started"
    /\ thread' = [thread EXCEPT ![r].pc = "running"]
    /\ is_training' = TRUE
    /\ UNCHANGED <<model_loaded, req>>

\* train_thread, the rest: the dataset is empty (return), the run raises,
\* or it completes; every path leaves through `finally`, which clears
\* is_training whatever other threads are doing.
ThreadEnd(r) ==
    /\ thread[r].pc = "running"
    /\ \E result \in {"empty", "error", "completed"} :
          thread' = [thread EXCEPT ![r].pc = "done", ![r].result = result]
    /\ is_training' = FALSE
    /\ UNCHANGED <<model_loaded, req>>

ActiveRuns == {r \in Requests : thread[r].pc \in {"started", "running"}}

NextUI ==
    \/ load_model_handler /\ UNCHANGED notUI
    \/ \E r \in Requests : train_sft_handler(r) /\ UNCHANGED notUI
    \/ \E r \in Requests : train_dpo_handler(r) /\ UNCHANGED notUI
    \/ \E r \in Requests : train_on_documents_handler(r) /\ UNCHANGED notUI
    \/ \E r \in Requests : ThreadBegin(r) /\ UNCHANGED notUI
    \/ \E r \in Requests : ThreadEnd(r) /\ UNCHANGED notUI

(***************************************************************************)
(* SocialSkillsModel.generate                                              *)
(*                                                                         *)
(* Logits are integers in units of ln 2, so that exp(x) is 2^x and the     *)
(* softmax sums are exact; the values drawn are multiples of 4 and the     *)
(* divisors 1 and 2, so that the divisions by repetition_penalty and by    *)
(* temperature are exact.  temperature, top_p and repetition_penalty are   *)
(* rationals <<numerator, denominator>>.                                   *)
(***************************************************************************)
VocabSize    == 3     \* vocab_size
MaxBatch     == 2     \* rows of input_ids
MaxNewTokens == 2     \* largest max_new_tokens of a call
MaxLength    == 2     \* the model's max_length (context window)
MaxCtx       == 2     \* longest context a loop iteration is entered with

NegInf == -1000       \* float('-inf')
PosInf == 1000        \* x / 0.0 for x > 0
NaN    == 2000        \* 0.0 / 0.0

Vocab     == 0..(VocabSize - 1)
Ranks     == 0..(VocabSize - 1)
LogitVals == {-4, 0, 4}
LogitVecs == [Vocab -> LogitVals]
NoEos     == -1       \* eos_token_id = None

PenaltyVals == {<<1, 1>>, <<2, 1>>}
TempVals    == {<<0, 1>>, <<1, 1>>, <<2, 1>>}
TopPVals    == {<<0, 1>>, <<1, 2>>, <<9, 10>>, <<1, 1>>}
TopKVals    == 0..VocabSize

\* the rows of 1..n tokens in increasing order: one row per set of tokens.
IncreasingRows(n) ==
    {row \in UNION {[1..m -> Vocab] : m \in 1..n} :
        \A j \in 1..(Len(row) - 1) : row[j] < row[j + 1]}
TokenSet(row) == {row[i] : i \in 1..Len(row)}      \* set(input_ids[i].tolist())

\* x / q in floating point: exact on the values drawn; by zero it is
\* +inf, -inf or nan and raises nothing (torch tensors, not Python floats).
Div(x, q) ==
    IF q[1] = 0
      THEN (IF x > 0 THEN PosInf ELSE IF x < 0 THEN NegInf ELSE NaN)
      ELSE (x * q[2]) \div q[1]

\* the models a weight vector stands for: forward is a fixed function of
\* the weights and of the (truncated) context.
WeightSet ==
    {w \in LogitVecs : /\ w[0] = 4 /\ w[VocabSize - 1] = -4
                       /\ \A t \in Vocab : t > 0 => w[t - 1] >= w[t]}

RECURSIVE SumTokens(_)
SumTokens(row) == IF row = <<>> THEN 0 ELSE Head(row) + SumTokens(Tail(row))

\* idx_cond: the last max_length tokens of the row.
Truncate(row) ==
    IF Len(row) <= MaxLength THEN row
    ELSE SubSeq(row, Len(row) - MaxLength + 1, Len(row))

\* self(idx_cond).logits[:, -1, :] for one row.
Forward(w, idx_cond) == [t \in Vocab |-> w[(t + SumTokens(idx_cond)) % VocabSize]]

\* lines 300-303: every token id present in the row has its logit divided.
RepetitionPenalty(l, row, penalty) ==
    IF penalty[1] = penalty[2] THEN l
    ELSE [t \in Vocab |-> IF t \in TokenSet(row) THEN Div(l[t], penalty) ELSE l[t]]

\* line 306: logits = logits / temperature.
Temperature(l, temperature) == [t \in Vocab |-> Div(l[t], temperature)]

NonFinite(l) == \E t \in Vocab : l[t] \in {PosInf, NaN}

\* torch.topk(logits, k)[0][..., -1]: the k-th largest value.
KthLargest(l, k) ==
    CHOOSE v \in {l[t] : t \in Vocab} :
        /\ Cardinality({t \in Vocab : l[t] > v}) < k
        /\ Cardinality({t \in Vocab : l[t] >= v}) >= k

\* TopK with <= for <: the k-th largest value itself is removed too.
TopKBelowOrEqual(l, top_k) ==
    IF top_k > 0
      THEN [t \in Vocab |-> IF l[t] <= KthLargest(l, top_k) THEN NegInf ELSE l[t]]
      ELSE l

\* lines 309-311: remove what is below the k-th largest value.
TopK(l, top_k) ==
    IF top_k > 0
      THEN [t \in Vocab |-> IF l[t] < KthLargest(l, top_k) THEN NegInf ELSE l[t]]
      ELSE l

\* torch.sort(logits, descending=True): any permutation that orders the
\* values; the order of equal values is not specified.  Entries already at
\* -inf are listed in index order: where they stand among themselves
\* changes nothing, a removed -inf entry stays -inf.
Perms == Permutations(Vocab)
SortPerms(l) ==
    {p \in Perms : \A r \in Ranks : r > 0 =>
        /\ l[p[r - 1]] >= l[p[r]]
        /\ l[p[r - 1]] = NegInf => p[r - 1] < p[r]}

\* the sort runs only when top_p < 1.0; otherwise no permutation is taken.
SortChoices(l, top_p) ==
    IF top_p[1] < top_p[2] THEN SortPerms(l)
    ELSE {CHOOSE p \in SortPerms(l) : TRUE}

MinFinite(l) ==
    IF \A t \in Vocab : l[t] = NegInf THEN 0
    ELSE CHOOSE v \in {l[t] : t \in Vocab} \ {NegInf} :
             \A t \in Vocab : l[t] # NegInf => v <= l[t]
MaxLogit(l) == CHOOSE v \in {l[t] : t \in Vocab} : \A t \in Vocab : l[t] <= v

\* F.softmax(sorted_logits), unnormalised: the weight 2^x of each rank,
\* exp(-inf) = 0.
SortedW(l, perm) ==
    LET base == MinFinite(l)
    IN  [r \in Ranks |-> IF l[perm[r]] = NegInf THEN 0 ELSE 2 ^ (l[perm[r]] - base)]

\* torch.cumsum over the ranks.
CumSum(w) ==
    LET cum[r \in Ranks] == IF r = 0 THEN w[0] ELSE cum[r - 1] + w[r]
    IN  cum

\* CumExceeds with >= for >.
CumReaches(l, top_p, perm) ==
    LET cum == CumSum(SortedW(l, perm))
    IN  [r \in Ranks |-> cum[r] * top_p[2] >= top_p[1] * cum[VocabSize - 1]]

\* sorted_indices_to_remove = cumulative_probs > top_p, rank by rank.
CumExceeds(l, top_p, perm) ==
    LET cum == CumSum(SortedW(l, perm))
    IN  [r \in Ranks |-> cum[r] * top_p[2] > top_p[1] * cum[VocabSize - 1]]

RankOf(perm, t) == CHOOSE r \in Ranks : perm[r] = t

\* TopP without lines 319-320: the mask is scattered as computed.
TopPNoShift(l, top_p, perm) ==
    IF top_p[1] < top_p[2]
      THEN LET remove == CumExceeds(l, top_p, perm)
           IN  [t \in Vocab |-> IF remove[RankOf(perm, t)] THEN NegInf ELSE l[t]]
      ELSE l

\* lines 314-325: the removal mask is shifted right by one rank, rank 0 is
\* always kept, and the mask is scattered back to token order.
TopP(l, top_p, perm) ==
    IF top_p[1] < top_p[2]
      THEN LET remove == CumExceeds(l, top_p, perm)
           IN  [t \in Vocab |->
                  LET r == RankOf(perm, t)
                  IN  IF r > 0 /\ remove[r - 1] THEN NegInf ELSE l[t]]
      ELSE l

\* One row through lines 299-311.  A quotient by temperature 0 holds +inf
\* or nan in some entry or -inf in all of them; no comparison with nan or
\* +inf is true in lines 310 and 318, so both filters leave such entries.
PreSort(raw, row, a) ==
    LET penalized == RepetitionPenalty(raw, row, a.repetition_penalty)
        scaled    == Temperature(penalized, a.temperature)
    IN  [raw |-> raw, penalized |-> penalized, scaled |-> scaled,
         topk |-> IF NonFinite(scaled) THEN scaled ELSE TopK(scaled, a.top_k)]

\* lines 313-325 on what PreSort left, with the permutation the sort returned.
PostSort(pre, a, perm) ==
    [raw |-> pre.raw, penalized |-> pre.penalized, scaled |-> pre.scaled,
     topk |-> pre.topk, perm |-> perm,
     final |-> IF NonFinite(pre.scaled) THEN pre.scaled
               ELSE TopP(pre.topk, a.top_p, perm)]

\* One row through lines 299-325.
FilterRow(raw, row, a, perm) == PostSort(PreSort(raw, row, a), a, perm)

\* what lines 299-325 can leave for one row: one outcome per sort order.
RowOutcomes(raw, row, a) ==
    UNION {{PostSort(pre, a, perm) : perm \in SortChoices(pre.topk, a.top_p)} :
              pre \in {PreSort(raw, row, a)}}

\* all sequences that take their i-th element from the i-th set.
RECURSIVE Product(_)
Product(sets) ==
    IF sets = <<>> THEN {<<>>}
    ELSE {<<h>> \o t : h \in Head(sets), t \in Product(Tail(sets))}

\* F.softmax(logits) holds nan: torch.multinomial raises.
SoftmaxIsNaN(l) == NonFinite(l) \/ \A t \in Vocab : l[t] = NegInf

\* the tokens with non-zero sampling probability.
Support(l) == {t \in Vocab : l[t] # NegInf}

Rows == 1..Len(input_ids)

NoArgs == [input_ids |-> <<>>, max_new_tokens |-> 0, temperature |-> <<1, 1>>,
           top_p |-> <<1, 1>>, top_k |-> 0, repetition_penalty |-> <<1, 1>>,
           eos_token_id |-> NoEos]

GenIdle ==
    /\ weights = [t \in Vocab |-> 4]
    /\ args = NoArgs
    /\ gen_pc = "idle"
    /\ input_ids = <<>>
    /\ n_iter = 0
    /\ raw_logits = <<>>
    /\ logits = <<>>

InitGen ==
    /\ weights \in WeightSet
    /\ args = NoArgs
    /\ gen_pc = "idle"
    /\ input_ids = <<>>
    /\ n_iter = 0
    /\ raw_logits = <<>>
    /\ logits = <<>>

\* the call: the arguments are bound, self.eval(), the loop is entered
\* (range(0) is empty: the prompt is returned as it is).
Generate ==
    /\ gen_pc = "idle"
    /\ \E prompt \in UNION {[1..b -> [1..1 -> Vocab]] : b \in 1..MaxBatch},
          max_new_tokens \in 0..MaxNewTokens,
          temperature \in {<<0, 1>>, <<1, 1>>},
          top_p \in {<<1, 2>>, <<1, 1>>},
          top_k \in {0, 1},
          repetition_penalty \in PenaltyVals,
          eos_token_id \in {NoEos, 0} :
          /\ args' = [input_ids |-> prompt, max_new_tokens |-> max_new_tokens,
                      temperature |-> temperature, top_p |-> top_p, top_k |-> top_k,
                      repetition_penalty |-> repetition_penalty,
                      eos_token_id |-> eos_token_id]
          /\ input_ids' = prompt
          /\ gen_pc' = IF max_new_tokens = 0 THEN "done" ELSE "forward"
    /\ n_iter' = 0
    /\ UNCHANGED <<weights, raw_logits, logits>>

\* lines 293-297: truncate, forward pass, logits at the last position.
GenForward ==
    /\ gen_pc = "forward"
    /\ raw_logits' = [i \in Rows |-> Forward(weights, Truncate(input_ids[i]))]
    /\ gen_pc' = "filter"
    /\ UNCHANGED <<weights, args, input_ids, n_iter, logits>>

\* lines 299-325: penalty, temperature, top-k, top-p, row by row.
GenFilter ==
    /\ gen_pc = "filter"
    /\ logits' \in Product([i \in Rows |->
                                 RowOutcomes(raw_logits[i], input_ids[i], args)])
    /\ gen_pc' = "sample"
    /\ UNCHANGED <<weights, args, input_ids, n_iter, raw_logits>>

\* AllEos with .any() for .all().
AnyEos(next_token, eos_token_id) ==
    eos_token_id # NoEos /\ \E i \in DOMAIN next_token : next_token[i] = eos_token_id

\* line 335: the loop breaks when every row sampled eos in this iteration.
AllEos(next_token, eos_token_id) ==
    eos_token_id # NoEos /\ \A i \in DOMAIN next_token : next_token[i] = eos_token_id

\* lines 328-336: softmax, multinomial, append, the eos check.
GenSample ==
    /\ gen_pc = "sample"
    /\ IF \E i \in Rows : SoftmaxIsNaN(logits[i].final)
         THEN /\ gen_pc' = "error"
              /\ UNCHANGED <<input_ids, n_iter>>
         ELSE \E next_token \in [Rows -> Vocab] :
                 /\ \A i \in Rows : next_token[i] \in Support(logits[i].final)
                 /\ input_ids' = [i \in Rows |-> Append(input_ids[i], next_token[i])]
                 /\ n_iter' = n_iter + 1
                 /\ gen_pc' = IF AllEos(next_token, args.eos_token_id)
                                   \/ n_iter + 1 >= args.max_new_tokens
                                THEN "done" ELSE "forward"
    /\ UNCHANGED <<weights, args, raw_logits, logits>>

NextGen ==
    \/ Generate /\ UNCHANGED notGen
    \/ GenForward /\ UNCHANGED notGen
    \/ GenFilter /\ UNCHANGED notGen
    \/ GenSample /\ UNCHANGED notGen

\* One loop iteration entered after the forward pass, with any logit vector,
\* any filter arguments (temperature not zero) and any set of tokens in the
\* row: lines 301-303 read the row as a set, so one row per set is drawn.
InitFilter ==
    /\ weights = [t \in Vocab |-> 4]
    /\ \E ctx \in IncreasingRows(MaxCtx),
          temperature \in TempVals \ {<<0, 1>>},
          top_p \in TopPVals,
          top_k \in TopKVals,
          repetition_penalty \in PenaltyVals :
          /\ args = [input_ids |-> <<ctx>>, max_new_tokens |-> 1,
                     temperature |-> temperature, top_p |-> top_p, top_k |-> top_k,
                     repetition_penalty |-> repetition_penalty,
                     eos_token_id |-> NoEos]
          /\ input_ids = <<ctx>>
    /\ raw_logits \in [1..1 -> LogitVecs]
    /\ gen_pc = "filter"
    /\ n_iter = 0
    /\ logits = <<>>

NextFilter == GenFilter /\ UNCHANGED notGen


\* generate has been called and is about to enter its loop: a prompt of
\* one or two rows of 1..MaxCtx tokens (each row one token repeated), any
\* max_new_tokens, temperature 1, top_k = 2 on logits that are all
\* different, so that the sampler has two outcomes per row and step; with
\* or without an end token.
InitLoop ==
    /\ weights = [t \in Vocab |-> 4 - 4 * t]
    /\ \E n \in 1..MaxCtx, b \in 1..2,
          max_new_tokens \in 0..MaxNewTokens,
          eos_token_id \in {NoEos, 0} :
          \E first \in [1..b -> {0, VocabSize - 1}] :
             LET prompt == [i \in 1..b |-> [j \in 1..n |-> first[i]]]
             IN  /\ args = [input_ids |-> prompt, max_new_tokens |-> max_new_tokens,
                            temperature |-> <<1, 1>>, top_p |-> <<1, 1>>,
                            top_k |-> 2, repetition_penalty |-> <<1, 1>>,
                            eos_token_id |-> eos_token_id]
                 /\ input_ids = prompt
                 /\ gen_pc = IF max_new_tokens = 0 THEN "done" ELSE "forward"
    /\ n_iter = 0
    /\ raw_logits = <<>>
    /\ logits = <<>>

NextLoop ==
    \/ GenForward /\ UNCHANGED notGen
    \/ GenFilter /\ UNCHANGED notGen
    \/ GenSample /\ UNCHANGED notGen

(***************************************************************************)
(* SFTTrainer.train                                                        *)
(*                                                                         *)
(* A micro-batch is named <<epoch, step>>.  grads is what loss.backward()  *)
(* has added to the .grad buffers since the last optimizer.zero_grad();    *)
(* applied records, per optimizer.step(), the micro-batches whose          *)
(* gradients that step used.                                               *)
(***************************************************************************)
MaxEpochs   == 2      \* largest num_epochs passed
MaxExamples == 3      \* largest len(train_dataset)
MaxAccum    == 2      \* largest gradient_accumulation_steps passed

DefaultNumEpochs == 3     \* config.training.num_epochs
DefaultBatchSize == 4     \* config.training.batch_size
DefaultAccum     == 8     \* config.training.gradient_accumulation_steps
DefaultSaveSteps == 500   \* config.training.save_steps
DefaultEvalSteps == 100   \* config.training.eval_steps
InfLoss          == 1000  \* float('inf')

EvalLosses == {1, 2}

\* `value or default`: None and 0 are both falsy.
OrDefault(value, default) == IF value = 0 THEN default ELSE value

\* len(train_loader): ceil(len(dataset) / batch_size), drop_last is False.
LenLoader(n, batch_size) == (n + batch_size - 1) \div batch_size

\* OptimizerStepDue on step instead of step + 1.
OptimizerStepDueSkewed(s, g) == s % g = 0 /\ s > 0

\* line 178: (step + 1) % gradient_accumulation_steps == 0
OptimizerStepDue(s, g) == (s + 1) % g = 0

\* save_checkpoint(name): weights and {global_step, epoch, best_eval_loss}.
SaveCheckpoint(cps, name, gs, ep, best) ==
    Append(cps, [name |-> name, global_step |-> gs, epoch |-> ep,
                 best_eval_loss |-> best])

NoTrainArgs(eval_dataset) ==
    [num_epochs |-> 0, batches |-> 0, gradient_accumulation_steps |-> 0,
     save_steps |-> 0, eval_steps |-> 0, eval_dataset |-> eval_dataset]

\* SFTTrainer.__init__
TrainIdle ==
    /\ t_pc = "new"
    /\ t_args = NoTrainArgs(FALSE)
    /\ epoch = 0
    /\ step = 0
    /\ global_step = 0
    /\ best_eval_loss = InfLoss
    /\ grads = {}
    /\ applied = <<>>
    /\ checkpoints = <<>>

InitTrain ==
    /\ t_pc = "new"
    /\ t_args \in {NoTrainArgs(b) : b \in BOOLEAN}
    /\ epoch = 0
    /\ step = 0
    /\ global_step = 0
    /\ best_eval_loss = InfLoss
    /\ grads = {}
    /\ applied = <<>>
    /\ checkpoints = <<>>

\* train(), lines 88-138: the arguments are resolved, the loader, the
\* optimizer and the schedule are built.  RandomSampler refuses an empty
\* dataset, so the call raises before the loop.
Train ==
    /\ t_pc = "new"
    /\ \E n \in 0..MaxExamples,
          num_epochs \in 0..MaxEpochs,
          batch_size \in 0..2,
          gradient_accumulation_steps \in 0..MaxAccum,
          save_steps \in 0..2,
          eval_steps \in 0..1 :
          IF n = 0
            THEN t_pc' = "error" /\ UNCHANGED t_args
            ELSE /\ t_args' =
                      [num_epochs |-> OrDefault(num_epochs, DefaultNumEpochs),
                       batches |-> LenLoader(n, OrDefault(batch_size, DefaultBatchSize)),
                       gradient_accumulation_steps |->
                           OrDefault(gradient_accumulation_steps, DefaultAccum),
                       save_steps |-> OrDefault(save_steps, DefaultSaveSteps),
                       eval_steps |-> OrDefault(eval_steps, DefaultEvalSteps),
                       eval_dataset |-> t_args.eval_dataset]
                 /\ t_pc' = "batch"
    /\ epoch' = 0
    /\ step' = 0
    /\ UNCHANGED <<global_step, best_eval_loss, grads, applied, checkpoints>>

\* lines 147-228: one micro-batch: forward, loss / G, backward; when due,
\* clip, optimizer.step(), scheduler.step(), zero_grad(), global_step += 1,
\* then evaluation and the step checkpoint.
MicroBatch ==
    /\ t_pc = "batch"
    /\ LET acc == grads \cup {<<epoch, step>>}
           gs  == global_step + 1
       IN  IF OptimizerStepDue(step, t_args.gradient_accumulation_steps)
             THEN /\ applied' = Append(applied, acc)
                  /\ grads' = {}
                  /\ global_step' = gs
                  /\ \E eval_loss \in EvalLosses :
                       LET evaluated == t_args.eval_dataset /\ gs % t_args.eval_steps = 0
                           improved  == evaluated /\ eval_loss < best_eval_loss
                           best      == IF improved THEN eval_loss ELSE best_eval_loss
                           cps1      == IF improved
                                          THEN SaveCheckpoint(checkpoints, <<"best", 0>>,
                                                              gs, epoch, best)
                                          ELSE checkpoints
                       IN  /\ best_eval_loss' = best
                           /\ checkpoints' =
                                 IF gs % t_args.save_steps = 0
                                   THEN SaveCheckpoint(cps1, <<"step", gs>>, gs, epoch, best)
                                   ELSE cps1
             ELSE /\ grads' = acc
                  /\ UNCHANGED <<applied, global_step, best_eval_loss, checkpoints>>
    /\ IF step + 1 < t_args.batches
         THEN step' = step + 1 /\ t_pc' = "batch"
         ELSE step' = step /\ t_pc' = "epoch_end"
    /\ UNCHANGED <<t_args, epoch>>

\* lines 230-235: the epoch checkpoint; the next epoch restarts step at 0
\* and leaves the .grad buffers as they are.
EpochEnd ==
    /\ t_pc = "epoch_end"
    /\ checkpoints' = SaveCheckpoint(checkpoints, <<"epoch", epoch + 1>>,
                                     global_step, epoch, best_eval_loss)
    /\ IF epoch + 1 < t_args.num_epochs
         THEN epoch' = epoch + 1 /\ step' = 0 /\ t_pc' = "batch"
         ELSE epoch' = epoch /\ step' = step /\ t_pc' = "final"
    /\ UNCHANGED <<t_args, global_step, best_eval_loss, grads, applied>>

\* lines 237-243: the final checkpoint and the final model.
TrainFinal ==
    /\ t_pc = "final"
    /\ checkpoints' = SaveCheckpoint(checkpoints, <<"final", 0>>,
                                     global_step, epoch, best_eval_loss)
    /\ t_pc' = "done"
    /\ UNCHANGED <<t_args, epoch, step, global_step, best_eval_loss, grads, applied>>

NextTrain ==
    \/ Train /\ UNCHANGED notTrain
    \/ MicroBatch /\ UNCHANGED notTrain
    \/ EpochEnd /\ UNCHANGED notTrain
    \/ TrainFinal /\ UNCHANGED notTrain

(***************************************************************************)
(* The checkpoint directory                                                *)
(*                                                                         *)
(* save_checkpoint writes two files into checkpoint_<name>, one after the  *)
(* other and in place: pytorch_model.bin (torch.save) and                  *)
(* training_state.json (open "w", json.dump).  The calls are those logged  *)
(* in checkpoints; here each is carried out file by file, and the process  *)
(* may die between any two file operations.  A file is absent, partial     *)
(* (opened for writing and not yet closed) or holds what was written,      *)
(* tagged with the call that wrote it.                                     *)
(***************************************************************************)
NoFile  == [kind |-> "absent"]
Partial == [kind |-> "partial"]

WeightsFile == "pytorch_model.bin"
StateFile   == "training_state.json"
ConfigFile  == "config.json"
FileNames   == {WeightsFile, StateFile, ConfigFile}

EmptyDir == [f \in FileNames |-> NoFile]

Dir(d, name) == IF name \in DOMAIN d THEN d[name] ELSE EmptyDir

\* os.makedirs(path, exist_ok=True), then the file is (re)written.
WriteFile(d, name, file, content) ==
    [x \in DOMAIN d \cup {name} |->
        IF x = name THEN [Dir(d, name) EXCEPT ![file] = content] ELSE d[x]]

\* json.dump / json.load of a number: float('inf') is written as the token
\* Infinity and read back as float('inf').
JsonDumpNumber(x) ==
    IF x = InfLoss THEN [tok |-> "Infinity", val |-> 0] ELSE [tok |-> "number", val |-> x]

JsonLoadNumber(t) == IF t.tok = "Infinity" THEN InfLoss ELSE t.val

\* torch.save(self.model.state_dict(), ...): the weights are those reached
\* after cp.global_step optimizer steps.
StateDictFile(k, cp) == [kind |-> "weights", save |-> k, weights |-> cp.global_step]

\* lines 293-301: {global_step, epoch, best_eval_loss, timestamp} as JSON.
TrainingStateFile(k, cp) ==
    [kind |-> "state", save |-> k,
     global_step    |-> JsonDumpNumber(cp.global_step),
     epoch          |-> JsonDumpNumber(cp.epoch),
     best_eval_loss |-> JsonDumpNumber(cp.best_eval_loss)]

NoCkpt == [name |-> <<"none", 0>>, has_state |-> FALSE,
           global_step |-> 0, epoch |-> 0, best_eval_loss |-> 0]

CkptIdle ==
    /\ disk = <<>>
    /\ save_k = 0
    /\ save_pc = "idle"
    /\ crashed = FALSE
    /\ loaded = NoCkpt

\* the save_checkpoint call being carried out.
CurrentSave == checkpoints[save_k + 1]

\* lines 283-290, first half: makedirs, torch.save opens the file.
SaveOpenWeights ==
    /\ ~crashed
    /\ save_pc = "idle"
    /\ save_k < Len(checkpoints)
    /\ disk' = WriteFile(disk, CurrentSave.name, WeightsFile, Partial)
    /\ save_pc' = "weights"
    /\ UNCHANGED <<save_k, crashed, loaded>>

\* lines 287-290, second half: the weights are written and the file closed.
SaveCloseWeights ==
    /\ ~crashed
    /\ save_pc = "weights"
    /\ disk' = WriteFile(disk, CurrentSave.name, WeightsFile,
                         StateDictFile(save_k + 1, CurrentSave))
    /\ save_pc' = "weights_done"
    /\ UNCHANGED <<save_k, crashed, loaded>>

\* line 300: open(training_state.json, "w") truncates the file.
SaveOpenState ==
    /\ ~crashed
    /\ save_pc = "weights_done"
    /\ disk' = WriteFile(disk, CurrentSave.name, StateFile, Partial)
    /\ save_pc' = "state"
    /\ UNCHANGED <<save_k, crashed, loaded>>

\* lines 301-303: json.dump, the file is closed, save_checkpoint returns.
SaveCloseState ==
    /\ ~crashed
    /\ save_pc = "state"
    /\ disk' = WriteFile(disk, CurrentSave.name, StateFile,
                         TrainingStateFile(save_k + 1, CurrentSave))
    /\ save_pc' = "idle"
    /\ save_k' = save_k + 1
    /\ UNCHANGED <<crashed, loaded>>

\* the process dies; nothing runs afterwards and the files stay as they are.
Crash ==
    /\ ~crashed
    /\ t_pc \notin {"new", "error"}
    /\ t_pc = "done" => save_k < Len(checkpoints)
    /\ crashed' = TRUE
    /\ UNCHANGED <<disk, save_k, save_pc, loaded>>

\* train() runs on only when the save_checkpoint calls it made have returned.
NextCkpt ==
    \/ /\ ~crashed /\ save_pc = "idle" /\ save_k = Len(checkpoints)
       /\ NextTrain
    \/ SaveOpenWeights /\ UNCHANGED <<trainvars, notCkpt>>
    \/ SaveCloseWeights /\ UNCHANGED <<trainvars, notCkpt>>
    \/ SaveOpenState /\ UNCHANGED <<trainvars, notCkpt>>
    \/ SaveCloseState /\ UNCHANGED <<trainvars, notCkpt>>
    \/ Crash /\ UNCHANGED <<trainvars, notCkpt>>

\* load_checkpoint(checkpoint_path), lines 305-324: torch.load of the
\* weights file (raises when it is missing or truncated), then the state
\* file, if there is one, sets the three counters.
load_checkpoint(name) ==
    /\ t_pc = "new"
    /\ loaded = NoCkpt
    /\ LET dir == Dir(disk, name)
       IN  IF dir[WeightsFile].kind # "weights" \/ dir[StateFile].kind = "partial"
             THEN /\ t_pc' = "error"
                  /\ UNCHANGED <<global_step, epoch, best_eval_loss, loaded>>
           ELSE IF dir[StateFile].kind = "absent"
             THEN /\ loaded' = [NoCkpt EXCEPT !.name = name]
                  /\ UNCHANGED <<t_pc, global_step, epoch, best_eval_loss>>
           ELSE /\ global_step' = JsonLoadNumber(dir[StateFile].global_step)
                /\ epoch' = JsonLoadNumber(dir[StateFile].epoch)
                /\ best_eval_loss' = JsonLoadNumber(dir[StateFile].best_eval_loss)
                /\ loaded' = [name |-> name, has_state |-> TRUE,
                              global_step |-> global_step', epoch |-> epoch',
                              best_eval_loss |-> best_eval_loss']
                /\ UNCHANGED t_pc
    /\ UNCHANGED <<t_args, step, grads, applied, checkpoints>>
    /\ UNCHANGED <<disk, save_k, save_pc, crashed>>

MaxSavedStep == 2     \* largest global_step of a checkpoint found on disk

\* what an earlier run left in the checkpoint directory.
SavedCheckpoints ==
    [name : {<<"final", 0>>}, global_step : 0..MaxSavedStep,
     epoch : 0..(MaxEpochs - 1), best_eval_loss : {1, InfLoss}]

\* A fresh trainer next to a checkpoint directory that holds checkpoint_final,
\* written in full by save_checkpoint, and checkpoint_best, of which a crash
\* left no file or only the weights.
InitResume ==
    /\ \E cp \in SavedCheckpoints : \E best \in {NoFile, StateDictFile(1, cp)} :
          disk = WriteFile(
                   WriteFile(
                     WriteFile(<<>>, cp.name, WeightsFile, StateDictFile(2, cp)),
                     cp.name, StateFile, TrainingStateFile(2, cp)),
                   <<"best", 0>>, WeightsFile, best)
    /\ save_k = 0
    /\ save_pc = "idle"
    /\ crashed = FALSE
    /\ loaded = NoCkpt

NextResume ==
    \/ \E name \in {<<"final", 0>>, <<"best", 0>>} :
          load_checkpoint(name) /\ UNCHANGED notCkpt
    \/ NextTrain

(***************************************************************************)
(* SocialSkillsModel objects: construction, save_pretrained and            *)
(* from_pretrained                                                         *)
(*                                                                         *)
(* dropout is in hundredths (10 is 0.1).                                   *)
(***************************************************************************)
MaxHidden == 4        \* largest hidden_size
MaxLayers == 2        \* largest num_layers
MaxHeads  == 3        \* largest num_heads

ModelParameters ==
    [vocab_size : {VocabSize}, hidden_size : 1..MaxHidden,
     num_layers : 0..MaxLayers, num_heads : 0..MaxHeads,
     max_length : {MaxLength}, dropout : {0, 10},
     pad_token_id : {0, VocabSize}]

NoModel == [status |-> "none"]

\* MultiHeadAttention.__init__, line 29: assert hidden_size % num_heads == 0
\* (num_heads = 0 raises ZeroDivisionError).
AttentionInitFails(hidden_size, num_heads) ==
    num_heads = 0 \/ hidden_size % num_heads # 0

\* __init__, lines 165-173: nn.Embedding refuses a padding_idx outside the
\* table; one TransformerBlock, hence one MultiHeadAttention, per layer.
InitFails(p) ==
    \/ p.pad_token_id >= p.vocab_size
    \/ \E layer \in 1..p.num_layers : AttentionInitFails(p.hidden_size, p.num_heads)

\* SocialSkillsModel(**p) with the weights w that initialisation (or a
\* following load_state_dict) gives it.
NewModel(p, w) ==
    IF InitFails(p) THEN [status |-> "failed", config |-> p]
    ELSE [status |-> "ok", config |-> p, weights |-> w]

ModelIdle ==
    /\ mdl = NoModel
    /\ mdl2 = NoModel
    /\ m_pc = "none"
    /\ out_saved = <<>>
    /\ out_loaded = <<>>

\* SocialSkillsModel(...): the constructor call, whatever instance was there.
Construct ==
    /\ m_pc \in {"none", "built", "failed"}
    /\ \E p \in ModelParameters, w \in WeightSet :
          /\ mdl' = NewModel(p, w)
          /\ m_pc' = IF InitFails(p) THEN "failed" ELSE "built"
    /\ UNCHANGED <<mdl2, out_saved, out_loaded>>

NextConstruct == Construct /\ UNCHANGED <<notModel, ckptvars>>

ModelPath == <<"model", 0>>      \* the directory save_pretrained writes

ConfigKeys == {"vocab_size", "hidden_size", "num_layers", "num_heads",
               "max_length", "dropout", "pad_token_id"}

\* json.dump(self.config): one number per key of the dict built at lines
\* 186-194; json.load gives the dict back.
JsonDumpConfig(p) == [key \in ConfigKeys |-> JsonDumpNumber(p[key])]

JsonLoadConfig(j) == [key \in DOMAIN j |-> JsonLoadNumber(j[key])]

ConfigFileOf(p) == [kind |-> "config", json |-> JsonDumpConfig(p)]

\* lines 340-351: makedirs, the weights, then config.json.
save_pretrained ==
    /\ m_pc = "built"
    /\ disk' = WriteFile(
                 WriteFile(disk, ModelPath, WeightsFile,
                           [kind |-> "weights", save |-> 0, weights |-> mdl.weights]),
                 ModelPath, ConfigFile, ConfigFileOf(mdl.config))
    /\ m_pc' = "saved"
    /\ UNCHANGED <<mdl, mdl2, out_saved, out_loaded>>
    /\ UNCHANGED <<save_k, save_pc, crashed, loaded>>

\* lines 353-372 on a directory: open(config.json) raises when the file is
\* not there; cls(**model_config); torch.load and load_state_dict.
LoadPretrained(dir) ==
    IF dir[ConfigFile].kind # "config" \/ dir[WeightsFile].kind # "weights"
      THEN [status |-> "failed"]
      ELSE NewModel(JsonLoadConfig(dir[ConfigFile].json), dir[WeightsFile].weights)

from_pretrained ==
    /\ m_pc = "saved"
    /\ mdl2' = LoadPretrained(Dir(disk, ModelPath))
    /\ m_pc' = "loaded"
    /\ UNCHANGED <<mdl, out_saved, out_loaded>>
    /\ UNCHANGED ckptvars

\* generate(..., top_k = 1) with the other filters switched off.
GreedyArgs == [NoArgs EXCEPT !.top_k = 1]

\* the tokens one iteration of generate can append to row for weights w.
NextTokens(w, row, a) ==
    UNION {Support(o.final) : o \in RowOutcomes(Forward(w, Truncate(row)), row, a)}

\* both instances decode the same prompt, one token per step each.
GreedyDecode ==
    /\ m_pc = "loaded"
    /\ mdl2.status = "ok"
    /\ \E prompt \in [1..1 -> Vocab] :
          /\ out_saved' = prompt
          /\ out_loaded' = prompt
    /\ m_pc' = "decoding"
    /\ UNCHANGED <<mdl, mdl2>>
    /\ UNCHANGED ckptvars

GreedyStep ==
    /\ m_pc = "decoding"
    /\ \E a \in NextTokens(mdl.weights, out_saved, GreedyArgs),
          b \in NextTokens(mdl2.weights, out_loaded, GreedyArgs) :
          /\ out_saved' = Append(out_saved, a)
          /\ out_loaded' = Append(out_loaded, b)
    /\ m_pc' = IF Len(out_saved) >= MaxNewTokens THEN "decoded" ELSE "decoding"
    /\ UNCHANGED <<mdl, mdl2>>
    /\ UNCHANGED ckptvars

\* an instance that was constructed, with any parameters and weights.
InitRoundTrip ==
    /\ mdl \in {NewModel(p, w) : p \in {q \in ModelParameters : ~InitFails(q)},
                                 w \in WeightSet}
    /\ mdl2 = NoModel
    /\ m_pc = "built"
    /\ out_saved = <<>>
    /\ out_loaded = <<>>

NextRoundTrip ==
    \/ save_pretrained /\ UNCHANGED notModel
    \/ from_pretrained /\ UNCHANGED notModel
    \/ GreedyDecode /\ UNCHANGED notModel
    \/ GreedyStep /\ UNCHANGED notModel

(***************************************************************************)
(* The forward pass: labels and loss, attention                            *)
(***************************************************************************)
MaxSeq     == 3       \* the length every example is padded to
MaxAttnLen == 2       \* largest seq_len of the attention scores

IgnoreLabel == -100   \* dataset.py line 94
MaskBias    == -10000 \* model.py line 230

\* the tokenizer with padding="max_length": content, then pad tokens.
PadTo(content, pad_id, n) ==
    [i \in 1..n |-> IF i <= Len(content) THEN content[i] ELSE pad_id]

NoSample == [input_ids |-> <<>>, tokenizer_pad |-> 0, model_pad |-> 0]

FwdIdle ==
    /\ sample = NoSample
    /\ labels = <<>>
    /\ ce = [status |-> "none", counted |-> {}]
    /\ l_pc = "none"
    /\ attn_in = [seq_len |-> 0, scores |-> <<>>, attention_mask |-> <<>>]
    /\ attn_out = [masked |-> <<>>, zero |-> <<>>, nan |-> <<>>]
    /\ a_pc = "none"

\* __getitem__, lines 87-94: labels are input_ids with every position that
\* holds the tokenizer's pad id set to -100.
GetItemLabels(ids, tokenizer_pad) ==
    [i \in 1..Len(ids) |-> IF ids[i] = tokenizer_pad THEN IgnoreLabel ELSE ids[i]]

\* forward, lines 259-265: labels[..., 1:] against logits[..., :-1, :] with
\* ignore_index = self.pad_token_id.  A target that is neither ignore_index
\* nor a class index makes F.cross_entropy raise; with every target ignored
\* the mean is 0/0.  counted: the label positions that enter the average.
CrossEntropy(lab, ignore_index) ==
    LET shifted == 2..Len(lab)
        counted == {j \in shifted : lab[j] # ignore_index}
    IN  IF \E j \in counted : lab[j] \notin Vocab
          THEN [status |-> "error", counted |-> {}]
        ELSE IF counted = {}
          THEN [status |-> "nan", counted |-> {}]
        ELSE [status |-> "ok", counted |-> counted]

GetItem ==
    /\ l_pc = "example"
    /\ labels' = GetItemLabels(sample.input_ids, sample.tokenizer_pad)
    /\ l_pc' = "labelled"
    /\ UNCHANGED <<sample, ce, attn_in, attn_out, a_pc>>

ForwardLoss ==
    /\ l_pc = "labelled"
    /\ ce' = CrossEntropy(labels, sample.model_pad)
    /\ l_pc' = "loss"
    /\ UNCHANGED <<sample, labels, attn_in, attn_out, a_pc>>

\* every example of 1..MaxSeq tokens, padded to MaxSeq, with every pair of
\* tokenizer pad id and model pad_token_id.
InitLoss ==
    /\ \E content \in UNION {[1..m -> Vocab] : m \in 1..MaxSeq},
          tokenizer_pad \in Vocab, model_pad \in Vocab :
          sample = [input_ids |-> PadTo(content, tokenizer_pad, MaxSeq),
                    tokenizer_pad |-> tokenizer_pad, model_pad |-> model_pad]
    /\ labels = <<>>
    /\ ce = [status |-> "none", counted |-> {}]
    /\ l_pc = "example"
    /\ attn_in = [seq_len |-> 0, scores |-> <<>>, attention_mask |-> <<>>]
    /\ attn_out = [masked |-> <<>>, zero |-> <<>>, nan |-> <<>>]
    /\ a_pc = "none"

NextLoss ==
    \/ GetItem /\ UNCHANGED notFwd
    \/ ForwardLoss /\ UNCHANGED notFwd

\* MultiHeadAttention.forward for one head and one batch row.  scores[i][j]
\* is q_i . k_j * scale; attention_mask is the 0/1 mask forward was given,
\* <<>> for None.  Softmax weights are kept as zero / not zero in exact
\* arithmetic: exp(x) is 0 for x = -inf only.
ScoreVals == {-1, 0, 1}

\* torch.triu(torch.ones(n, n), diagonal).bool(): TRUE where j - i >= diagonal.
Triu(n, diagonal) == [i \in 1..n |-> [j \in 1..n |-> j - i >= diagonal]]

\* CausalMask with diagonal = 0: every row loses its own position too.
CausalMaskWithDiagonal(n) == Triu(n, 0)

\* lines 65-68
CausalMask(n) == Triu(n, 1)

\* line 69: masked_fill(causal_mask, float('-inf'))
MaskedFill(scores, mask) ==
    [i \in DOMAIN scores |->
        [j \in DOMAIN scores[i] |-> IF mask[i][j] THEN NegInf ELSE scores[i][j]]]

\* SocialSkillsModel.forward, lines 228-230: (1.0 - attention_mask) * -10000.0,
\* broadcast over the query positions.
PaddingBias(attention_mask) ==
    [j \in DOMAIN attention_mask |-> (1 - attention_mask[j]) * MaskBias]

\* x + b in floating point: -inf stays -inf.
AddBias(x, b) == IF x = NegInf THEN NegInf ELSE x + b

\* lines 72-73
AddAttentionMask(scores, attention_mask) ==
    IF attention_mask = <<>> THEN scores
    ELSE [i \in DOMAIN scores |->
            [j \in DOMAIN scores[i] |->
                AddBias(scores[i][j], PaddingBias(attention_mask)[j])]]

\* lines 62-75: the masked scores, and per row of the softmax whether it is
\* nan (no finite score) and which weights are exactly 0.
Attention(scores, attention_mask) ==
    LET n      == Len(scores)
        masked == AddAttentionMask(MaskedFill(scores, CausalMask(n)), attention_mask)
    IN  [masked |-> masked,
         nan    |-> [i \in 1..n |-> \A j \in 1..n : masked[i][j] = NegInf],
         zero   |-> [i \in 1..n |-> [j \in 1..n |-> masked[i][j] = NegInf]]]

Attend ==
    /\ a_pc = "scores"
    /\ attn_out' = Attention(attn_in.scores, attn_in.attention_mask)
    /\ a_pc' = "attended"
    /\ UNCHANGED <<sample, labels, ce, l_pc, attn_in>>

\* every score matrix of 1..MaxAttnLen positions, without and with every
\* padding mask.
InitAttention ==
    /\ \E n \in 1..MaxAttnLen :
          \E scores \in [1..n -> [1..n -> ScoreVals]],
             attention_mask \in {<<>>} \cup [1..n -> {0, 1}] :
             attn_in = [seq_len |-> n, scores |-> scores,
                        attention_mask |-> attention_mask]
    /\ attn_out = [masked |-> <<>>, zero |-> <<>>, nan |-> <<>>]
    /\ a_pc = "scores"
    /\ sample = NoSample
    /\ labels = <<>>
    /\ ce = [status |-> "none", counted |-> {}]
    /\ l_pc = "none"

NextAttention == Attend /\ UNCHANGED notFwd

(***************************************************************************)
(* DPO                                                                     *)
(*                                                                         *)
(* Sequence log-probabilities are integers; beta, the rewards and the      *)
(* argument of the log-sigmoid are rationals <<numerator, denominator>> in *)
(* lowest terms with a positive denominator, so that equal values are      *)
(* equal tuples.  -log_sigmoid is kept symbolic: a loss is the list of the *)
(* arguments whose -log_sigmoid is averaged.                               *)
(***************************************************************************)
MaxDpoBatch == 2      \* largest batch a compute_dpo_loss call is given

DefaultBeta        == <<1, 10>>   \* config.training.dpo_beta
DefaultWarmupSteps == 500         \* config.training.warmup_steps

LogpVals == {-2, -1}
BetaVals == {<<0, 1>>, <<1, 10>>, <<1, 2>>}

Abs(x) == IF x < 0 THEN -x ELSE x

RECURSIVE GCD(_, _)
GCD(a, b) == IF b = 0 THEN a ELSE GCD(b, a % b)

Rat(n, d) ==
    LET g == GCD(Abs(n), Abs(d))
        sign == IF d < 0 THEN -1 ELSE 1
    IN  <<sign * (n \div g), sign * (d \div g)>>

RatScale(q, k) == Rat(q[1] * k, q[2])                           \* q * k
RatSub(a, b) == Rat(a[1] * b[2] - b[1] * a[2], a[2] * b[2])     \* a - b
RatAdd(a, b) == Rat(a[1] * b[2] + b[1] * a[2], a[2] * b[2])     \* a + b

RECURSIVE RatSum(_)
RatSum(qs) == IF qs = <<>> THEN <<0, 1>> ELSE RatAdd(Head(qs), RatSum(Tail(qs)))

\* tensor.mean() of a non-empty vector
RatMean(qs) == LET total == RatSum(qs) IN Rat(total[1], total[2] * Len(qs))

\* `beta or config.training.dpo_beta`: 0.0 is falsy.
BetaOrDefault(beta) == IF beta[1] = 0 THEN DefaultBeta ELSE beta

\* compute_dpo_loss with logits = policy_logratios + reference_logratios.
compute_dpo_loss_sum(b, beta) ==
    LET n == Len(b)
        policy_logratios    == [i \in 1..n |-> b[i].policy_chosen - b[i].policy_rejected]
        reference_logratios == [i \in 1..n |-> b[i].reference_chosen - b[i].reference_rejected]
        dpo_logits == [i \in 1..n |-> policy_logratios[i] + reference_logratios[i]]
        chosen_rewards   == [i \in 1..n |->
                                RatScale(beta, b[i].policy_chosen - b[i].reference_chosen)]
        rejected_rewards == [i \in 1..n |->
                                RatScale(beta, b[i].policy_rejected - b[i].reference_rejected)]
    IN  [neg_log_sigmoid_of |-> [i \in 1..n |-> RatScale(beta, dpo_logits[i])],
         chosen_rewards     |-> chosen_rewards,
         rejected_rewards   |-> rejected_rewards,
         chosen_mean        |-> RatMean(chosen_rewards),
         rejected_mean      |-> RatMean(rejected_rewards)]

\* lines 91-103, for a batch b of records of the four log-probabilities.
\* Returned: losses.mean() (the arguments of -log_sigmoid, one per example),
\* chosen_rewards.mean() and rejected_rewards.mean(); the per-example rewards
\* are kept beside them.
compute_dpo_loss(b, beta) ==
    LET n == Len(b)
        policy_logratios    == [i \in 1..n |-> b[i].policy_chosen - b[i].policy_rejected]
        reference_logratios == [i \in 1..n |-> b[i].reference_chosen - b[i].reference_rejected]
        dpo_logits == [i \in 1..n |-> policy_logratios[i] - reference_logratios[i]]
        chosen_rewards   == [i \in 1..n |->
                                RatScale(beta, b[i].policy_chosen - b[i].reference_chosen)]
        rejected_rewards == [i \in 1..n |->
                                RatScale(beta, b[i].policy_rejected - b[i].reference_rejected)]
    IN  [neg_log_sigmoid_of |-> [i \in 1..n |-> RatScale(beta, dpo_logits[i])],
         chosen_rewards     |-> chosen_rewards,
         rejected_rewards   |-> rejected_rewards,
         chosen_mean        |-> RatMean(chosen_rewards),
         rejected_mean      |-> RatMean(rejected_rewards)]

\* -log_sigmoid(0) = ln 2, and so is the mean of any number of them.
IsLn2(loss) == \A i \in DOMAIN loss : loss[i] = <<0, 1>>

Logps == [policy_chosen : LogpVals, policy_rejected : LogpVals,
          reference_chosen : LogpVals, reference_rejected : LogpVals]

NoDpoOut == [neg_log_sigmoid_of |-> <<>>, chosen_rewards |-> <<>>,
             rejected_rewards |-> <<>>, chosen_mean |-> <<0, 1>>,
             rejected_mean |-> <<0, 1>>]

DPOLossIdle ==
    /\ dpo_in = [batch |-> <<>>, beta |-> DefaultBeta]
    /\ dpo_out = NoDpoOut
    /\ dl_pc = "none"

\* a DPOTrainer built with any beta, and any batch of log-probabilities.
InitDPOCall ==
    /\ \E batch \in UNION {[1..n -> Logps] : n \in 1..MaxDpoBatch}, beta \in BetaVals :
          dpo_in = [batch |-> batch, beta |-> BetaOrDefault(beta)]
    /\ dpo_out = NoDpoOut
    /\ dl_pc = "args"

ComputeDpoLoss ==
    /\ dl_pc = "args"
    /\ dpo_out' = compute_dpo_loss(dpo_in.batch, dpo_in.beta)
    /\ dl_pc' = "computed"
    /\ UNCHANGED dpo_in

\* the variables of a DPO run, and those of one compute_dpo_loss call
dpoRunVars  == <<d_pc, d_args, d_epoch, d_step, d_global_step, policy_w, ref_w,
                 sched, epoch_acc, history, step_log, artifact>>
dpoLossVars == <<dpo_in, dpo_out, dl_pc>>

NextDPOLoss == ComputeDpoLoss /\ UNCHANGED <<dpoRunVars, notDPO>>

\* get_linear_schedule_with_warmup: the factor the base learning rate is
\* multiplied by after k calls of scheduler.step().  The optimizer step
\* that follows k scheduler steps runs with this factor, so the first
\* optimizer step of a run with warmup runs with learning rate 0.
LrLambda(k, num_warmup_steps, num_training_steps) ==
    IF k < num_warmup_steps
      THEN Rat(k, IF num_warmup_steps > 1 THEN num_warmup_steps ELSE 1)
    ELSE IF num_training_steps - k <= 0 THEN <<0, 1>>
    ELSE Rat(num_training_steps - k,
             IF num_training_steps - num_warmup_steps > 1
               THEN num_training_steps - num_warmup_steps ELSE 1)

\* AdamW.step() with learning rate factor lr; weights are version numbers.
\* With lr = 0 neither the update nor the decoupled weight decay changes a
\* parameter; with lr > 0 the weight decay alone changes them.
OptimizerStep(w, lr) == IF lr[1] = 0 THEN w ELSE w + 1

NoWeights == -1       \* no such model instance

NoEpochAcc == [loss |-> <<>>, chosen_rewards |-> <<>>, rejected_rewards |-> <<>>]

\* the record of an epoch with the sums where the means belong.
HistoryRecordOfSums(ep, acc, n_steps) ==
    [epoch |-> ep + 1,
     loss |-> <<acc.loss, 1>>,
     chosen_rewards |-> <<acc.chosen_rewards, 1>>,
     rejected_rewards |-> <<acc.rejected_rewards, 1>>]

\* lines 258-263: each sum of the epoch divided by n_steps =
\* len(train_loader), kept as <<what was summed, n_steps>>.
HistoryRecord(ep, acc, n_steps) ==
    [epoch |-> ep + 1,
     loss |-> <<acc.loss, n_steps>>,
     chosen_rewards |-> <<acc.chosen_rewards, n_steps>>,
     rejected_rewards |-> <<acc.rejected_rewards, n_steps>>]

\* the minibatches the shuffling loader can hand out
DpoBatches == {1, 2}

\* the chosen and rejected log-probabilities a model with weights w gives
\* minibatch x: some function of both under which successive weights and
\* different minibatches give different values.
get_batch_logps(w, x) ==
    [chosen |-> -(1 + ((w + x) % 3)), rejected |-> -(1 + (w % 2))]

\* lines 196-210: the policy's and the reference's log-probabilities.
StepLogps(w, ref, x) ==
    [policy_chosen      |-> get_batch_logps(w, x).chosen,
     policy_rejected    |-> get_batch_logps(w, x).rejected,
     reference_chosen   |-> get_batch_logps(ref, x).chosen,
     reference_rejected |-> get_batch_logps(ref, x).rejected]

NoDpoArgs == [num_epochs |-> 0, batches |-> 0, beta |-> DefaultBeta, start_w |-> 0]

DPOTrainIdle ==
    /\ d_pc = "none"
    /\ d_args = NoDpoArgs
    /\ d_epoch = 0
    /\ d_step = 0
    /\ d_global_step = 0
    /\ policy_w = 0
    /\ ref_w = NoWeights
    /\ sched = 0
    /\ epoch_acc = NoEpochAcc
    /\ history = <<>>
    /\ step_log = <<>>
    /\ artifact = NoWeights

DPOIdle == DPOTrainIdle /\ DPOLossIdle

\* train_thread of train_dpo_handler, lines 241-281, with DPOTrainer.__init__
\* and the head of DPOTrainer.train (lines 149-178): the reference model is
\* built and given a copy of the policy's state_dict; an empty dataset ends
\* the thread; the trainer starts with global_step 0 and no history; the
\* loader, the optimizer over self.model.parameters() and the schedule are
\* built.
DPOStart ==
    /\ d_pc = "new"
    /\ ref_w' = policy_w
    /\ \E n \in 0..MaxExamples, num_epochs \in 0..MaxEpochs, batch_size \in 0..2,
          beta \in {<<0, 1>>, <<1, 2>>} :
          IF n = 0
            THEN d_pc' = "empty" /\ UNCHANGED d_args
            ELSE /\ d_args' = [num_epochs |-> num_epochs,
                               batches |-> LenLoader(n, OrDefault(batch_size,
                                                                  DefaultBatchSize)),
                               beta |-> BetaOrDefault(beta),
                               start_w |-> policy_w]
                 /\ d_pc' = IF num_epochs = 0 THEN "save" ELSE "batch"
    /\ d_epoch' = 0
    /\ d_step' = 0
    /\ d_global_step' = 0
    /\ sched' = 0
    /\ epoch_acc' = NoEpochAcc
    /\ history' = <<>>
    /\ UNCHANGED <<policy_w, step_log, artifact>>

\* lines 187-249: the four log-probabilities of the minibatch, the loss,
\* zero_grad, backward, clip, optimizer.step(), scheduler.step(),
\* global_step += 1, the three sums.  step_log keeps what the step saw and
\* did.
DPOStep ==
    /\ d_pc = "batch"
    /\ \E x \in DpoBatches :
          LET out == compute_dpo_loss(<<StepLogps(policy_w, ref_w, x)>>, d_args.beta)
              lr  == LrLambda(sched, DefaultWarmupSteps,
                              d_args.batches * d_args.num_epochs)
              new_w == OptimizerStep(policy_w, lr)
          IN  /\ policy_w' = new_w
              /\ epoch_acc' =
                    [loss |-> Append(epoch_acc.loss, out.neg_log_sigmoid_of),
                     chosen_rewards |-> Append(epoch_acc.chosen_rewards, out.chosen_mean),
                     rejected_rewards |-> Append(epoch_acc.rejected_rewards,
                                                 out.rejected_mean)]
              /\ step_log' = Append(step_log,
                    [epoch |-> d_epoch, batch |-> x,
                     loss |-> out.neg_log_sigmoid_of,
                     policy_before |-> policy_w, policy_after |-> new_w,
                     ref_before |-> ref_w, ref_after |-> ref_w, lr |-> lr])
    /\ sched' = sched + 1
    /\ d_global_step' = d_global_step + 1
    /\ IF d_step + 1 < d_args.batches
         THEN d_step' = d_step + 1 /\ d_pc' = "batch"
         ELSE d_step' = d_step /\ d_pc' = "epoch_end"
    /\ UNCHANGED <<d_args, d_epoch, ref_w, history, artifact>>

\* lines 251-263: the record of the epoch is appended; the next epoch
\* starts its sums at 0 (lines 181-183).
DPOEpochEnd ==
    /\ d_pc = "epoch_end"
    /\ history' = Append(history, HistoryRecord(d_epoch, epoch_acc, d_args.batches))
    /\ epoch_acc' = NoEpochAcc
    /\ IF d_epoch + 1 < d_args.num_epochs
         THEN d_epoch' = d_epoch + 1 /\ d_step' = 0 /\ d_pc' = "batch"
         ELSE d_epoch' = d_epoch /\ d_step' = d_step /\ d_pc' = "save"
    /\ UNCHANGED <<d_args, d_global_step, policy_w, ref_w, sched, step_log, artifact>>

\* lines 265-271: self.model.save_pretrained(dpo_model), the history returned.
DPOSave ==
    /\ d_pc = "save"
    /\ artifact' = policy_w
    /\ d_pc' = "done"
    /\ UNCHANGED <<d_args, d_epoch, d_step, d_global_step, policy_w, ref_w, sched,
                   epoch_acc, history, step_log>>

\* the thread of an accepted DPO request, about to run on a model whose
\* weights are any version.
InitDPO ==
    /\ d_pc = "new"
    /\ policy_w \in 0..1
    /\ d_args = [NoDpoArgs EXCEPT !.start_w = policy_w]
    /\ d_epoch = 0
    /\ d_step = 0
    /\ d_global_step = 0
    /\ ref_w = NoWeights
    /\ sched = 0
    /\ epoch_acc = NoEpochAcc
    /\ history = <<>>
    /\ step_log = <<>>
    /\ artifact = NoWeights

NextDPO ==
    \/ DPOStart /\ UNCHANGED <<dpoLossVars, notDPO>>
    \/ DPOStep /\ UNCHANGED <<dpoLossVars, notDPO>>
    \/ DPOEpochEnd /\ UNCHANGED <<dpoLossVars, notDPO>>
    \/ DPOSave /\ UNCHANGED <<dpoLossVars, notDPO>>

(***************************************************************************)
(* Dataset loaders                                                         *)
(*                                                                         *)
(* A line of the file is what json.loads makes of it after strip():        *)
(* a JSONDecodeError, or a value with its Python type.  A dict has keys, a *)
(* list has items, a str has substrings: `k in value` looks at these.      *)
(***************************************************************************)
MaxLines == 3         \* most lines of a data file

ConversationKeys == {"instruction", "input", "output"}
PreferenceKeys   == {"prompt", "chosen", "rejected"}

\* json.loads(line.strip()) per line written in the file
InvalidJson == [json |-> "JSONDecodeError", has |-> {}, id |-> 0]
BlankLine   == [json |-> "JSONDecodeError", has |-> {}, id |-> 1]
JsonNumber  == [json |-> "int", has |-> {}, id |-> 0]
JsonNull    == [json |-> "NoneType", has |-> {}, id |-> 0]
JsonList    == [json |-> "list", has |-> {}, id |-> 0]
JsonString  == [json |-> "str", has |-> PreferenceKeys, id |-> 0]
JsonObject(keys, id) == [json |-> "dict", has |-> keys, id |-> id]

\* the lines a file is written from: two complete records of each class,
\* an object with one field missing, and the lines that are no object
LineVals ==
    {InvalidJson, BlankLine, JsonNumber, JsonNull, JsonList, JsonString,
     JsonObject(ConversationKeys, 1), JsonObject(ConversationKeys, 2),
     JsonObject(PreferenceKeys, 1), JsonObject(PreferenceKeys, 2),
     JsonObject({"prompt", "chosen"}, 1), JsonObject({"instruction", "input"}, 1)}

DataFiles == UNION {[1..n -> LineVals] : n \in 0..MaxLines}

\* `k in example`: TypeError for a value that is no container
InRaises(example) == example.json \in {"int", "NoneType"}

\* all(k in example for k in keys), the value it has when nothing raises
AllIn(keys, example) == keys \subseteq example.has

NoExamples == <<>>

DataIdle ==
    /\ data_file = <<>>
    /\ ds_class = "none"
    /\ examples = NoExamples
    /\ ds_pc = "none"

InitData ==
    /\ data_file \in DataFiles
    /\ ds_class \in {"conversation", "preference"}
    /\ examples = NoExamples
    /\ ds_pc = "file"

\* ConversationDataset._load_data, lines 45-52, on the lines from position
\* i on with the examples appended so far: every line json.loads accepts is
\* appended.
RECURSIVE ConversationLoad(_, _, _)
ConversationLoad(file, i, acc) ==
    IF i > Len(file) THEN [pc |-> "loaded", examples |-> acc]
    ELSE IF file[i].json = "JSONDecodeError" THEN ConversationLoad(file, i + 1, acc)
    ELSE ConversationLoad(file, i + 1, Append(acc, file[i]))

\* PreferenceDataset._load_data, lines 132-141: only JSONDecodeError is
\* caught, the TypeError of `k in example` leaves __init__.
RECURSIVE PreferenceLoad(_, _, _)
PreferenceLoad(file, i, acc) ==
    IF i > Len(file) THEN [pc |-> "loaded", examples |-> acc]
    ELSE IF file[i].json = "JSONDecodeError" THEN PreferenceLoad(file, i + 1, acc)
    ELSE IF InRaises(file[i]) THEN [pc |-> "raised", examples |-> acc]
    ELSE IF AllIn(PreferenceKeys, file[i])
      THEN PreferenceLoad(file, i + 1, Append(acc, file[i]))
    ELSE PreferenceLoad(file, i + 1, acc)

LoadConversationDataset ==
    /\ ds_pc = "file"
    /\ ds_class = "conversation"
    /\ LET r == ConversationLoad(data_file, 1, <<>>)
       IN  examples' = r.examples /\ ds_pc' = r.pc
    /\ UNCHANGED <<data_file, ds_class>>

LoadPreferenceDataset ==
    /\ ds_pc = "file"
    /\ ds_class = "preference"
    /\ LET r == PreferenceLoad(data_file, 1, <<>>)
       IN  examples' = r.examples /\ ds_pc' = r.pc
    /\ UNCHANGED <<data_file, ds_class>>

NextData ==
    \/ LoadConversationDataset /\ UNCHANGED notData
    \/ LoadPreferenceDataset /\ UNCHANGED notData

(***************************************************************************)
(* The hyperparameters of SFTTrainer.train                                 *)
(***************************************************************************)
None == -1            \* an argument left at its default None

HyperParams == {"num_epochs", "batch_size", "warmup_steps",
                "gradient_accumulation_steps", "save_steps"}

\* config.training
ConfigDefault(k) ==
    CASE k = "num_epochs" -> DefaultNumEpochs
      [] k = "batch_size" -> DefaultBatchSize
      [] k = "warmup_steps" -> DefaultWarmupSteps
      [] k = "gradient_accumulation_steps" -> DefaultAccum
      [] k = "save_steps" -> DefaultSaveSteps

\* lines 89-95, `value or default`: None and 0 both give the default.
PyOr(value, default) == IF value \in {None, 0} THEN default ELSE value

NoHyperParams == [k \in HyperParams |-> None]

HpIdle ==
    /\ hp_in = NoHyperParams
    /\ hp_out = NoHyperParams
    /\ hp_pc = "none"

InitHp ==
    /\ hp_in = NoHyperParams
    /\ hp_out = NoHyperParams
    /\ hp_pc = "new"

\* the head of train(), lines 88-122, for the arguments a: each one is
\* resolved, and the schedule is built with the resolved warmup_steps.
TrainHead(a) ==
    /\ hp_pc = "new"
    /\ hp_in' = a
    /\ hp_out' = [k \in HyperParams |-> PyOr(a[k], ConfigDefault(k))]
    /\ hp_pc' = "resolved"

\* a direct call of train() with any arguments
TrainCall == \E a \in [HyperParams -> {None, 0, 2}] : TrainHead(a)

\* train_thread of train_sft_handler, lines 193-199: the values of the
\* sliders, whose ranges start at 1 for epochs and batch size and at 0 for
\* warmup steps; the other arguments are not passed.
TrainFromSliders ==
    \E num_epochs \in 1..2, batch_size \in 1..2, warmup_steps \in {0, 10, 20} :
        TrainHead([NoHyperParams EXCEPT !.num_epochs = num_epochs,
                                        !.batch_size = batch_size,
                                        !.warmup_steps = warmup_steps])

NextHp ==
    \/ TrainCall /\ UNCHANGED notHp
    \/ TrainFromSliders /\ UNCHANGED notHp

(***************************************************************************)
(* The user service: accounts, login and email verification                *)
(*                                                                         *)
(* A row of the users table carries what the service reads and writes:     *)
(* hashed_password, is_verified, verification_code,                        *)
(* verification_code_expires and last_login.  Time is counted in ticks;    *)
(* None stands for a NULL column.  Each service method runs to its commit  *)
(* or to its exception in one step.                                        *)
(***************************************************************************)
MaxUsers == 1         \* emails in use
MaxTime  == 3         \* ticks of the clock

CodeLifetime == 2     \* timedelta(hours=24), in ticks

Emails    == 1..MaxUsers
Passwords == {1, 2}
Codes     == {1, 2}       \* _generate_verification_code()

NoUser == [exists |-> FALSE]

\* ph.hash(password) and ph.verify(hashed, plain)
hash_password(password) == <<"argon2", password>>
verify_password(plain_password, hashed_password) ==
    hashed_password = hash_password(plain_password)

NoCall == [op |-> "none", email |-> 0, arg |-> 0, before |-> NoUser,
           result |-> "none", at |-> 0]

UsersIdle ==
    /\ users = [e \in Emails |-> NoUser]
    /\ now = 0
    /\ last = NoCall
    /\ verified_ok = {}

\* the call that has just returned or raised
Called(op, email, arg, result) ==
    last' = [op |-> op, email |-> email, arg |-> arg, before |-> users[email],
             result |-> result, at |-> now]

\* create, lines 47-75: a new, unverified row with a code good for 24 hours;
\* the unique index on email refuses a second row.
create(email, password, code) ==
    /\ IF users[email].exists
         THEN Called("create", email, password, "IntegrityError") /\ UNCHANGED users
         ELSE /\ users' = [users EXCEPT ![email] =
                    [exists |-> TRUE, hashed_password |-> hash_password(password),
                     is_verified |-> FALSE, verification_code |-> code,
                     verification_code_expires |-> now + CodeLifetime,
                     last_login |-> None]]
              /\ Called("create", email, password, "user")
    /\ UNCHANGED <<now, verified_ok>>

\* authenticate without the is_verified check.
AuthenticateUnchecked(u, password) ==
    IF ~u.exists THEN "None"
    ELSE IF ~verify_password(password, u.hashed_password) THEN "None"
    ELSE "user"

\* authenticate, lines 96-113: what the call returns or raises for the row u.
Authenticate(u, password) ==
    IF ~u.exists THEN "None"
    ELSE IF ~verify_password(password, u.hashed_password) THEN "None"
    ELSE IF ~u.is_verified THEN "403"
    ELSE "user"

authenticate(email, password) ==
    /\ LET result == Authenticate(users[email], password)
       IN  /\ Called("authenticate", email, password, result)
           /\ users' = IF result = "user"
                         THEN [users EXCEPT ![email].last_login = now]
                         ELSE users
    /\ UNCHANGED <<now, verified_ok>>

\* verify_email without the expiry check.
VerifyEmailNoExpiry(u, code, t) ==
    IF ~u.exists THEN "404"
    ELSE IF u.is_verified THEN "400 already verified"
    ELSE IF u.verification_code = None \/ u.verification_code_expires = None
      THEN "400 no code"
    ELSE IF u.verification_code # code THEN "400 wrong code"
    ELSE "True"

\* verify_email, lines 218-246: what the call returns or raises for the row
\* u, the supplied code and the time t.
VerifyEmail(u, code, t) ==
    IF ~u.exists THEN "404"
    ELSE IF u.is_verified THEN "400 already verified"
    ELSE IF u.verification_code = None \/ u.verification_code_expires = None
      THEN "400 no code"
    ELSE IF u.verification_code_expires < t THEN "400 expired"
    ELSE IF u.verification_code # code THEN "400 wrong code"
    ELSE "True"

\* lines 248-254
verify_email(email, code) ==
    /\ LET result == VerifyEmail(users[email], code, now)
       IN  /\ Called("verify_email", email, code, result)
           /\ IF result = "True"
                THEN /\ users' = [users EXCEPT ![email].is_verified = TRUE,
                                               ![email].verification_code = None,
                                               ![email].verification_code_expires = None]
                     /\ verified_ok' = verified_ok \cup {email}
                ELSE UNCHANGED <<users, verified_ok>>
    /\ UNCHANGED now

\* resend_verification_code, lines 266-291: a fresh code for an unverified
\* user.
resend_verification_code(email, code) ==
    /\ IF ~users[email].exists
         THEN Called("resend", email, code, "404") /\ UNCHANGED users
       ELSE IF users[email].is_verified
         THEN Called("resend", email, code, "400 already verified") /\ UNCHANGED users
       ELSE /\ users' = [users EXCEPT ![email].verification_code = code,
                                      ![email].verification_code_expires =
                                           now + CodeLifetime]
            /\ Called("resend", email, code, "sent")
    /\ UNCHANGED <<now, verified_ok>>

\* delete, lines 192-198: the row goes, and with it what was verified.
delete(email) ==
    /\ Called("delete", email, 0, "None")
    /\ users' = [users EXCEPT ![email] = NoUser]
    /\ verified_ok' = verified_ok \ {email}
    /\ UNCHANGED now

\* change_password, lines 363-390
change_password(email, old_password, new_password) ==
    /\ IF ~users[email].exists
         THEN Called("change_password", email, new_password, "404") /\ UNCHANGED users
       ELSE IF ~verify_password(old_password, users[email].hashed_password)
         THEN Called("change_password", email, new_password, "400") /\ UNCHANGED users
       ELSE /\ users' = [users EXCEPT ![email].hashed_password =
                                           hash_password(new_password)]
            /\ Called("change_password", email, new_password, "True")
    /\ UNCHANGED <<now, verified_ok>>

\* time passes
Tick ==
    /\ now < MaxTime
    /\ now' = now + 1
    /\ UNCHANGED <<users, last, verified_ok>>

NextUsers ==
    \/ \E e \in Emails, p \in Passwords, c \in Codes :
          create(e, p, c) /\ UNCHANGED notUsers
    \/ \E e \in Emails, p \in Passwords : authenticate(e, p) /\ UNCHANGED notUsers
    \/ \E e \in Emails, c \in Codes : verify_email(e, c) /\ UNCHANGED notUsers
    \/ \E e \in Emails, c \in Codes :
          resend_verification_code(e, c) /\ UNCHANGED notUsers
    \/ \E e \in Emails : delete(e) /\ UNCHANGED notUsers
    \/ \E e \in Emails, p \in Passwords, q \in Passwords :
          change_password(e, p, q) /\ UNCHANGED notUsers
    \/ Tick /\ UNCHANGED notUsers

(***************************************************************************)
(* A started train_thread, step by step, next to the generation test       *)
(*                                                                         *)
(* The thread of an accepted start request builds its dataset, hands it    *)
(* to the trainer and leaves through `finally`.  The trainer is followed   *)
(* by its batches, its optimizer steps and its save_checkpoint calls; any  *)
(* of them may raise.  test_generation_handler runs on the caller's own    *)
(* thread, on the same model object.                                       *)
(***************************************************************************)
MaxRuns == 2          \* start requests whose thread is followed

RunBatches == 2       \* len(train_loader) of a dataset that is not empty
RunEpochs  == 1       \* num_epochs, as the thread passes it
RunAccum   == 2       \* gradient_accumulation_steps, as train() resolves it

RunRequests == 1..MaxRuns

NoRun == [at |-> "idle", epoch |-> 0, step |-> 0, micro |-> 0, opt |-> 0,
          saved |-> {}, failed |-> FALSE]

RunIdle ==
    /\ run = [r \in Requests |-> NoRun]
    /\ model_mode = "train"
    /\ generating = FALSE

\* train_thread after its first statement: the dataset is built.  An empty
\* one is logged and the thread returns, through `finally`; otherwise the
\* trainer is built and train() begins with model.train().
RunLoad(r) ==
    /\ thread[r].pc = "running"
    /\ run[r].at = "idle"
    /\ \E n \in {0, RunBatches} :
          IF n = 0
            THEN /\ run' = [run EXCEPT ![r].at = "ended"]
                 /\ thread' = [thread EXCEPT ![r].pc = "done", ![r].result = "empty"]
                 /\ is_training' = FALSE
                 /\ UNCHANGED model_mode
            ELSE /\ run' = [run EXCEPT ![r].at = "batch"]
                 /\ model_mode' = "train"
                 /\ UNCHANGED <<thread, is_training>>
    /\ UNCHANGED <<model_loaded, req, generating>>

\* one iteration of `for step, batch in enumerate(progress_bar)`: forward,
\* backward, and every RunAccum batches the optimizer step.
RunStep(r) ==
    /\ run[r].at = "batch"
    /\ LET sync == (run[r].step + 1) % RunAccum = 0
       IN  run' = [run EXCEPT
                     ![r].micro = @ + 1,
                     ![r].opt   = IF sync THEN @ + 1 ELSE @,
                     ![r].step  = @ + 1,
                     ![r].at    = IF run[r].step + 1 = RunBatches
                                    THEN "epoch_end" ELSE "batch"]
    /\ UNCHANGED <<uivars, model_mode, generating>>

\* self.save_checkpoint(f"epoch_{epoch + 1}")
RunEpochSave(r) ==
    /\ run[r].at = "epoch_end"
    /\ run' = [run EXCEPT
                 ![r].saved = @ \cup {<<"epoch", run[r].epoch + 1>>},
                 ![r].epoch = @ + 1,
                 ![r].step  = 0,
                 ![r].at    = IF run[r].epoch + 1 = RunEpochs
                                THEN "final" ELSE "batch"]
    /\ UNCHANGED <<uivars, model_mode, generating>>

\* self.save_checkpoint("final"), and train() returns
RunFinalSave(r) ==
    /\ run[r].at = "final"
    /\ run' = [run EXCEPT ![r].saved = @ \cup {<<"final", 0>>}, ![r].at = "return"]
    /\ UNCHANGED <<uivars, model_mode, generating>>

\* a batch or a save_checkpoint call raises: train() has no handler, the
\* exception reaches `except Exception` of train_thread, which logs it.
RunRaise(r) ==
    /\ run[r].at \in {"batch", "epoch_end", "final"}
    /\ run' = [run EXCEPT ![r].at = "except", ![r].failed = TRUE]
    /\ UNCHANGED <<uivars, model_mode, generating>>

\* `finally` that forgets is_training after an exception.
RunFinallyAfterReturnOnly(r) ==
    /\ run[r].at \in {"return", "except"}
    /\ run' = [run EXCEPT ![r].at = "ended"]
    /\ thread' = [thread EXCEPT
           ![r].pc = "done",
           ![r].result = IF run[r].failed THEN "error" ELSE "completed"]
    /\ is_training' = IF run[r].failed THEN is_training ELSE FALSE
    /\ UNCHANGED <<model_loaded, req, model_mode, generating>>

\* `finally`: is_training is cleared, whatever happened.
RunFinally(r) ==
    /\ run[r].at \in {"return", "except"}
    /\ run' = [run EXCEPT ![r].at = "ended"]
    /\ thread' = [thread EXCEPT
           ![r].pc = "done",
           ![r].result = IF run[r].failed THEN "error" ELSE "completed"]
    /\ is_training' = FALSE
    /\ UNCHANGED <<model_loaded, req, model_mode, generating>>

\* test_generation_handler up to model.generate: only `model is None` is
\* looked at, then model.eval().
GenerateBegin ==
    /\ model_loaded
    /\ ~generating
    /\ model_mode' = "eval"
    /\ generating' = TRUE
    /\ UNCHANGED <<uivars, run>>

\* model.generate returns
GenerateEnd ==
    /\ generating
    /\ generating' = FALSE
    /\ UNCHANGED <<uivars, run, model_mode>>

\* what the thread of request r does next
ThreadNext(r) ==
    \/ ThreadBegin(r) /\ UNCHANGED notUI
    \/ RunLoad(r) /\ UNCHANGED notUIRun
    \/ RunStep(r) /\ UNCHANGED notUIRun
    \/ RunEpochSave(r) /\ UNCHANGED notUIRun
    \/ RunFinalSave(r) /\ UNCHANGED notUIRun
    \/ RunRaise(r) /\ UNCHANGED notUIRun
    \/ RunFinally(r) /\ UNCHANGED notUIRun

NextRun ==
    \/ load_model_handler /\ UNCHANGED notUI
    \/ \E r \in RunRequests : train_sft_handler(r) /\ UNCHANGED notUI
    \/ \E r \in RunRequests : ThreadNext(r)
    \/ GenerateBegin /\ UNCHANGED notUIRun
    \/ GenerateEnd /\ UNCHANGED notUIRun

(***************************************************************************)
(* Specifications                                                          *)
(***************************************************************************)
Init == InitUI /\ InitGen /\ InitTrain /\ CkptIdle /\ ModelIdle /\ FwdIdle /\ DPOIdle /\ DataIdle /\ HpIdle /\ UsersIdle /\ RunIdle
Next == NextUI \/ NextGen \/ NextCkpt \/ NextResume \/ NextConstruct \/ NextRoundTrip
          \/ NextLoss \/ NextAttention \/ NextDPOLoss \/ NextDPO \/ NextData \/ NextLoop
          \/ NextHp \/ NextUsers \/ NextRun
Spec == Init /\ [][Next]_vars

\* each part alone, the other parts at rest.
InitSpecUI     == InitUI /\ GenIdle /\ TrainIdle /\ CkptIdle /\ ModelIdle /\ FwdIdle /\ DPOIdle /\ DataIdle /\ HpIdle /\ UsersIdle /\ RunIdle
InitSpecGen    == InitUI /\ InitGen /\ TrainIdle /\ CkptIdle /\ ModelIdle /\ FwdIdle /\ DPOIdle /\ DataIdle /\ HpIdle /\ UsersIdle /\ RunIdle
InitSpecFilter == InitUI /\ InitFilter /\ TrainIdle /\ CkptIdle /\ ModelIdle /\ FwdIdle /\ DPOIdle /\ DataIdle /\ HpIdle /\ UsersIdle /\ RunIdle
InitSpecTrain  == InitUI /\ GenIdle /\ InitTrain /\ CkptIdle /\ ModelIdle /\ FwdIdle /\ DPOIdle /\ DataIdle /\ HpIdle /\ UsersIdle /\ RunIdle

SpecUI     == InitSpecUI /\ [][NextUI]_vars
SpecGen    == InitSpecGen /\ [][NextGen]_vars
SpecFilter == InitSpecFilter /\ [][NextFilter]_vars
SpecTrain  == InitSpecTrain /\ [][NextTrain]_vars

\* a training run with its checkpoint files, and a crash at any point.
InitSpecCkpt   == InitUI /\ GenIdle /\ InitTrain /\ CkptIdle /\ ModelIdle /\ FwdIdle /\ DPOIdle /\ DataIdle /\ HpIdle /\ UsersIdle /\ RunIdle
SpecCkpt       == InitSpecCkpt /\ [][NextCkpt]_vars

\* a new trainer that may load a checkpoint before train().
InitSpecResume == InitUI /\ GenIdle /\ InitTrain /\ InitResume /\ ModelIdle /\ FwdIdle /\ DPOIdle /\ DataIdle /\ HpIdle /\ UsersIdle /\ RunIdle
SpecResume     == InitSpecResume /\ [][NextResume]_vars

\* constructor calls with every combination of parameters.
InitSpecConstruct == InitUI /\ GenIdle /\ TrainIdle /\ CkptIdle /\ ModelIdle /\ FwdIdle /\ DPOIdle /\ DataIdle /\ HpIdle /\ UsersIdle /\ RunIdle
SpecConstruct     == InitSpecConstruct /\ [][NextConstruct]_vars

\* the labels of an example and the loss forward computes from them.
InitSpecLoss == InitUI /\ GenIdle /\ TrainIdle /\ CkptIdle /\ ModelIdle /\ InitLoss /\ DPOIdle /\ DataIdle /\ HpIdle /\ UsersIdle /\ RunIdle
SpecLoss     == InitSpecLoss /\ [][NextLoss]_vars

\* one attention head on every score matrix and padding mask.
InitSpecAttention == InitUI /\ GenIdle /\ TrainIdle /\ CkptIdle /\ ModelIdle /\ InitAttention /\ DPOIdle /\ DataIdle /\ HpIdle /\ UsersIdle /\ RunIdle
SpecAttention     == InitSpecAttention /\ [][NextAttention]_vars

\* the loop of generate, run to its end: the call keeps running until it
\* returns or raises.
InitSpecLoop == InitUI /\ InitLoop /\ TrainIdle /\ CkptIdle /\ ModelIdle /\ FwdIdle /\ DPOIdle /\ DataIdle /\ HpIdle /\ UsersIdle /\ RunIdle
SpecLoop     == InitSpecLoop /\ [][NextLoop]_vars /\ WF_vars(NextLoop)

\* the head of train() with every combination of arguments.
InitSpecHp == InitUI /\ GenIdle /\ TrainIdle /\ CkptIdle /\ ModelIdle /\ FwdIdle /\ DPOIdle /\ DataIdle /\ InitHp /\ UsersIdle /\ RunIdle
SpecHp     == InitSpecHp /\ [][NextHp]_vars

\* started threads and the generation test; every thread is scheduled.
InitSpecRun == InitUI /\ GenIdle /\ TrainIdle /\ CkptIdle /\ ModelIdle /\ FwdIdle /\ DPOIdle /\ DataIdle /\ HpIdle /\ UsersIdle /\ RunIdle
SpecRun     == InitSpecRun /\ [][NextRun]_vars /\ \A r \in RunRequests : WF_vars(ThreadNext(r))

\* the user service on an empty users table.
InitSpecUsers == InitUI /\ GenIdle /\ TrainIdle /\ CkptIdle /\ ModelIdle /\ FwdIdle /\ DPOIdle /\ DataIdle /\ HpIdle /\ UsersIdle /\ RunIdle
SpecUsers     == InitSpecUsers /\ [][NextUsers]_vars

\* both loaders on every file of at most MaxLines lines.
InitSpecData == InitUI /\ GenIdle /\ TrainIdle /\ CkptIdle /\ ModelIdle /\ FwdIdle /\ DPOIdle /\ InitData /\ HpIdle /\ UsersIdle /\ RunIdle
SpecData     == InitSpecData /\ [][NextData]_vars

\* compute_dpo_loss on every batch of log-probabilities.
InitSpecDPOLoss == InitUI /\ GenIdle /\ TrainIdle /\ CkptIdle /\ ModelIdle /\ FwdIdle /\ DPOTrainIdle /\ InitDPOCall /\ DataIdle /\ HpIdle /\ UsersIdle /\ RunIdle
SpecDPOLoss     == InitSpecDPOLoss /\ [][NextDPOLoss]_vars

\* a DPO run.
InitSpecDPO == InitUI /\ GenIdle /\ TrainIdle /\ CkptIdle /\ ModelIdle /\ FwdIdle /\ InitDPO /\ DPOLossIdle /\ DataIdle /\ HpIdle /\ UsersIdle /\ RunIdle
SpecDPO     == InitSpecDPO /\ [][NextDPO]_vars

\* save_pretrained, from_pretrained, then greedy decoding by both instances.
InitSpecRoundTrip == InitUI /\ GenIdle /\ TrainIdle /\ CkptIdle /\ InitRoundTrip /\ FwdIdle /\ DPOIdle /\ DataIdle /\ HpIdle /\ UsersIdle /\ RunIdle
SpecRoundTrip     == InitSpecRoundTrip /\ [][NextRoundTrip]_vars

(***************************************************************************)
(* Claims                                                                  *)
(***************************************************************************)
LessOne(q) == q[1] < q[2]
MoreOne(q) == q[1] > q[2]

\* C1: at most one training run is active at any time: a start request that
\* arrives while an accepted run has not finished starts no thread.
C1_AtMostOneActiveRun == Cardinality(ActiveRuns) <= 1

\* the tokens generate appended to row i, as positions of the row.
NewPositions(i) == (Len(args.input_ids[i]) + 1)..Len(input_ids[i])
SampledEos(i) == \E j \in NewPositions(i) : input_ids[i][j] = args.eos_token_id

\* C2: with eos_token_id set, a row that sampled the end token is Stopped
\* (nothing is appended after it), and the loop does not go on once every
\* row has sampled the end token, at the same step or at different ones.
C2_BatchStopsWhenEveryRowStopped ==
    (gen_pc # "idle" /\ args.eos_token_id # NoEos) =>
        /\ \A i \in Rows : \A j \in NewPositions(i) :
              input_ids[i][j] = args.eos_token_id => j = Len(input_ids[i])
        /\ gen_pc = "forward" => \E i \in Rows : ~SampledEos(i)

\* C3: after top-k and top-p filtering at least one token keeps a finite
\* logit, and a token with the highest logit is among the kept ones, for
\* every logit vector, every 0 <= top_k <= vocab_size and 0 <= top_p < 1.
C3_FilteredDistributionNotEmpty ==
    gen_pc = "sample" =>
        \A i \in Rows :
            /\ Support(logits[i].final) # {}
            /\ \E t \in Support(logits[i].final) :
                  logits[i].scaled[t] = MaxLogit(logits[i].scaled)

C3_Witness ==
    /\ gen_pc = "sample"
    /\ args.top_k = 2
    /\ args.top_p = <<0, 1>>
    /\ Cardinality(Support(logits[1].topk)) = 3
    /\ Cardinality(Support(logits[1].final)) = 1

\* no single token has probability >= top_p in the distribution top-p sees.
NoTokenReaches(l, top_p, perm) ==
    LET w == SortedW(l, perm)
        total == CumSum(w)[VocabSize - 1]
    IN  \A r \in Ranks : w[r] * top_p[2] < top_p[1] * total

\* the first rank at which the cumulative probability exceeds top_p.
FirstExceeding(l, top_p, perm) ==
    LET exceeds == CumExceeds(l, top_p, perm)
    IN  CHOOSE r \in Ranks : exceeds[r] /\ \A q \in Ranks : q < r => ~exceeds[q]

\* C4, as stated: when no single token has probability >= top_p, top-p
\* retains exactly one token, the highest-probability one.
C4_RetainsExactlyOne ==
    (gen_pc = "sample" /\ LessOne(args.top_p)) =>
        \A i \in Rows :
            NoTokenReaches(logits[i].topk, args.top_p, logits[i].perm) =>
                Support(logits[i].final) = {logits[i].perm[0]}

\* C4, amended: when no single token has probability >= top_p, top-p
\* retains the highest-probability token and the tokens after it in sorted
\* order up to and including the first at which the cumulative probability
\* exceeds top_p: at least two tokens, never zero.
C4_RetainsNucleusPrefix ==
    (gen_pc = "sample" /\ LessOne(args.top_p)) =>
        \A i \in Rows :
            NoTokenReaches(logits[i].topk, args.top_p, logits[i].perm) =>
                LET m == FirstExceeding(logits[i].topk, args.top_p, logits[i].perm)
                IN  /\ m >= 1
                    /\ Support(logits[i].final) = {logits[i].perm[r] : r \in 0..m}

C4_Witness ==
    /\ gen_pc = "sample"
    /\ args.top_p = <<1, 2>>
    /\ NoTokenReaches(logits[1].topk, args.top_p, logits[1].perm)
    /\ Cardinality(Support(logits[1].topk)) = 3
    /\ Cardinality(Support(logits[1].final)) = 2

\* C5: a repetition penalty > 1 strictly decreases the logit of every token
\* id present in the row, whatever its sign, and leaves the other logits
\* unchanged; a penalty of exactly 1 changes no logit.
C5_PenaltyDecreasesPresentTokens ==
    gen_pc = "sample" =>
        \A i \in Rows : \A t \in Vocab :
            IF MoreOne(args.repetition_penalty) /\ t \in TokenSet(input_ids[i])
              THEN logits[i].penalized[t] < logits[i].raw[t]
              ELSE logits[i].penalized[t] = logits[i].raw[t]

\* C6: top-k with 0 < k <= vocab_size leaves at most k tokens with a finite
\* logit, also when several logits equal the k-th highest value.
C6_TopKKeepsAtMostK ==
    (gen_pc = "sample" /\ args.top_k > 0) =>
        \A i \in Rows : Cardinality(Support(logits[i].topk)) <= args.top_k

\* C7: a call with temperature = 0 does not reach an error: it completes
\* and returns a token sequence.
C7_TemperatureZeroGuarded ==
    args.temperature[1] = 0 => gen_pc # "error"

\* C8: with top_k = 1 exactly one token has non-zero sampling probability
\* at every decoding step, so the output does not depend on the sampler.
C8_TopKOneIsDeterministic ==
    (gen_pc = "sample" /\ args.top_k = 1 /\ args.temperature[1] # 0) =>
        \A i \in Rows : Cardinality(Support(logits[i].final)) = 1

\* C9: each optimizer step applies the gradients of exactly G consecutive
\* micro-batches of one epoch, and every micro-batch's gradient is applied
\* by a step: none is left over when the run completes.
C9_ExactlyGMicroBatchesPerStep ==
    /\ \A k \in 1..Len(applied) :
          /\ Cardinality(applied[k]) = t_args.gradient_accumulation_steps
          /\ \A a, b \in applied[k] :
                /\ a[1] = b[1]
                /\ a[2] - b[2] < t_args.gradient_accumulation_steps
    /\ t_pc = "done" => grads = {}

\* C10: with gradient_accumulation_steps = 1 a run of E epochs over B
\* minibatches on a fresh trainer makes one optimizer step per micro-batch,
\* global_step counts them and ends at B*E, and the checkpoint final is
\* written last, right after the checkpoint of the last epoch.
C10_OneStepPerMicroBatch ==
    (t_pc # "new" /\ t_pc # "error" /\ t_args.gradient_accumulation_steps = 1) =>
        /\ global_step = Len(applied)
        /\ \A k \in 1..Len(applied) : Cardinality(applied[k]) = 1
        /\ t_pc = "batch" => global_step = epoch * t_args.batches + step
        /\ t_pc = "done" =>
              /\ global_step = t_args.batches * t_args.num_epochs
              /\ Len(checkpoints) >= 2
              /\ checkpoints[Len(checkpoints)].name = <<"final", 0>>
              /\ checkpoints[Len(checkpoints) - 1].name = <<"epoch", t_args.num_epochs>>
              /\ \A k \in 1..(Len(checkpoints) - 1) :
                    checkpoints[k].name # <<"final", 0>>

C10_Witness ==
    /\ t_pc = "done"
    /\ t_args.gradient_accumulation_steps = 1
    /\ t_args.batches = 2
    /\ t_args.num_epochs = 2
    /\ global_step = 4

\* C11: after load_checkpoint of a checkpoint saved with global_step = g,
\* epoch = e and best_eval_loss = b the trainer's counters are (g, e, b), and
\* a following train() goes on from them: its optimizer steps are numbered
\* g+1, g+2, ... and its epoch counter never falls below e.
C11_ResumeContinuesNumbering ==
    loaded.has_state =>
        /\ t_pc = "new" =>
              /\ global_step = loaded.global_step
              /\ epoch = loaded.epoch
              /\ best_eval_loss = loaded.best_eval_loss
        /\ t_pc \in {"batch", "epoch_end", "final", "done"} =>
              /\ global_step = loaded.global_step + Len(applied)
              /\ epoch >= loaded.epoch

\* both files of a checkpoint directory are there in full and come from the
\* same save_checkpoint call.
CheckpointComplete(dir) ==
    /\ dir[WeightsFile].kind = "weights"
    /\ dir[StateFile].kind = "state"
    /\ dir[WeightsFile].save = dir[StateFile].save

\* C12: after a crash at any point of save_checkpoint every checkpoint
\* directory holds one complete checkpoint, the previous one or the new one:
\* never weights of one save with the state file of another or with none.
C12_CrashLeavesCompleteCheckpoint ==
    crashed => \A name \in DOMAIN disk : CheckpointComplete(disk[name])

\* C17: no SocialSkillsModel instance exists whose hidden_size is not
\* divisible by num_heads: the constructor fails for every such choice,
\* whatever vocab_size, num_layers >= 0 and max_length are.
C17_NoInstanceWithIndivisibleHidden ==
    (mdl.status = "ok" /\ mdl.config.num_heads > 0) =>
        mdl.config.hidden_size % mdl.config.num_heads = 0

\* C13: every checkpoint directory save_checkpoint wrote in full holds,
\* with the weights and the training state, the ModelParameters, so that
\* from_pretrained on that directory alone rebuilds the model.
C13_CheckpointIsSelfDescribing ==
    \A name \in DOMAIN disk :
        CheckpointComplete(disk[name]) =>
            /\ disk[name][ConfigFile].kind = "config"
            /\ LoadPretrained(disk[name]).status = "ok"

\* C14: from_pretrained after save_pretrained gives an instance with the
\* same ModelParameters and the same weights, and greedy decoding
\* (top_k = 1) of a prompt gives the same tokens from both instances.
C14_RoundTripSameGreedyOutput ==
    m_pc \in {"loaded", "decoding", "decoded"} =>
        /\ mdl2.status = "ok"
        /\ mdl2.config = mdl.config
        /\ mdl2.weights = mdl.weights
        /\ out_loaded = out_saved

\* C15: the loss leaves out exactly the label positions the dataset marked
\* as ignore (the pad positions), and the loss computation does not fail.
C15_LossExcludesExactlyPadLabels ==
    l_pc = "loss" =>
        /\ ce.status # "error"
        /\ ce.counted = {j \in 2..Len(labels) : labels[j] # IgnoreLabel}

\* C16: after the softmax the attention weight from position i to every
\* position j > i is exactly 0, with or without a padding mask, and every
\* row i keeps a finite score at j = i, so no row of the softmax is nan.
C16_CausalMaskZeroesFuture ==
    a_pc = "attended" =>
        \A i \in 1..attn_in.seq_len :
            /\ \A j \in 1..attn_in.seq_len : j > i => attn_out.zero[i][j]
            /\ attn_out.masked[i][i] # NegInf
            /\ ~attn_out.zero[i][i]
            /\ ~attn_out.nan[i]

C16_Witness ==
    /\ a_pc = "attended"
    /\ attn_in.seq_len = MaxAttnLen
    /\ attn_in.attention_mask # <<>>
    /\ attn_in.attention_mask[1] = 0
    /\ attn_out.zero[1][2]
    /\ attn_out.masked[1][1] = attn_in.scores[1][1] + MaskBias


\* C18: in a DPO run the reference's weights are the policy's weights at the
\* start of the run and no step changes them, every step changes the
\* policy's weights, and the artifact saved at the end is the policy.
C18_ReferenceFrozenPolicyUpdatedEveryStep ==
    /\ d_pc \in {"batch", "epoch_end", "save", "done"} => ref_w = d_args.start_w
    /\ \A k \in DOMAIN step_log :
          /\ step_log[k].ref_after = step_log[k].ref_before
          /\ step_log[k].policy_after # step_log[k].policy_before
    /\ d_pc = "done" => artifact = policy_w

\* the losses of the steps of epoch ep (numbered from 0), in order
RECURSIVE LossesOfEpoch(_, _)
LossesOfEpoch(log, ep) ==
    IF log = <<>> THEN <<>>
    ELSE IF Head(log).epoch = ep
      THEN <<Head(log).loss>> \o LossesOfEpoch(Tail(log), ep)
      ELSE LossesOfEpoch(Tail(log), ep)

\* C19: a run over B minibatches per epoch and E epochs takes one optimizer
\* step per minibatch, global_step ending at B*E; the history has one record
\* per epoch, whose loss is the mean of the losses of that epoch's steps;
\* each of these losses is computed from the log-probabilities the policy
\* gives the batch before the step's update.
C19_OneStepPerBatchOneRecordPerEpoch ==
    /\ d_global_step = Len(step_log)
    /\ \A k \in DOMAIN step_log :
          step_log[k].loss =
             compute_dpo_loss(<<StepLogps(step_log[k].policy_before,
                                          step_log[k].ref_before,
                                          step_log[k].batch)>>,
                              d_args.beta).neg_log_sigmoid_of
    /\ d_pc = "done" =>
          /\ d_global_step = d_args.batches * d_args.num_epochs
          /\ Len(history) = d_args.num_epochs
          /\ \A e \in DOMAIN history :
                /\ history[e].epoch = e
                /\ Len(LossesOfEpoch(step_log, e - 1)) = d_args.batches
                /\ history[e].loss = <<LossesOfEpoch(step_log, e - 1), d_args.batches>>

\* two epochs of two minibatches each have been run to the end, with a
\* policy that changed between steps.
C19_Witness ==
    /\ d_pc = "done"
    /\ d_args.batches = 2
    /\ d_args.num_epochs = 2
    /\ d_global_step = 4
    /\ Len(history) = 2
    /\ history[1].loss # history[2].loss

\* every example of the batch has the policy's log-probabilities equal to
\* the reference's
NoDrift(b) ==
    \A i \in DOMAIN b : /\ b[i].policy_chosen = b[i].reference_chosen
                        /\ b[i].policy_rejected = b[i].reference_rejected

\* C20: the argument of the log-sigmoid is chosen_reward - rejected_reward
\* for every example; when the policy's log-probabilities equal the
\* reference's it is 0 for every beta, the loss is -log_sigmoid(0) = ln 2
\* and both reported rewards are 0.
C20_LossArgumentIsRewardMargin ==
    dl_pc = "computed" =>
       /\ DOMAIN dpo_out.neg_log_sigmoid_of = DOMAIN dpo_in.batch
       /\ \A i \in DOMAIN dpo_in.batch :
             dpo_out.neg_log_sigmoid_of[i] =
                RatSub(dpo_out.chosen_rewards[i], dpo_out.rejected_rewards[i])
       /\ NoDrift(dpo_in.batch) =>
             /\ IsLn2(dpo_out.neg_log_sigmoid_of)
             /\ dpo_out.chosen_mean = <<0, 1>>
             /\ dpo_out.rejected_mean = <<0, 1>>

\* the loss of a full batch without drift, with chosen and rejected
\* log-probabilities that differ, under a beta other than the default.
C20_Witness ==
    /\ dl_pc = "computed"
    /\ Len(dpo_in.batch) = MaxDpoBatch
    /\ NoDrift(dpo_in.batch)
    /\ dpo_in.batch[1].policy_chosen # dpo_in.batch[1].policy_rejected
    /\ dpo_in.beta = <<1, 2>>
    /\ IsLn2(dpo_out.neg_log_sigmoid_of)


\* a line is a usable record of the class: a JSON object with the fields
\* of the class
Usable(class, line) ==
    /\ line.json = "dict"
    /\ (IF class = "conversation" THEN ConversationKeys ELSE PreferenceKeys)
          \subseteq line.has

\* C21: loading never fails because of a bad line; the examples are exactly
\* the usable records of the file, in the order of the file.
C21_BadLinesSkippedOthersLoaded ==
    ds_pc \in {"loaded", "raised"} =>
       /\ ds_pc = "loaded"
       /\ examples = SelectSeq(data_file, LAMBDA line : Usable(ds_class, line))


\* line 116: total_steps, the num_training_steps of the schedule
TotalSteps(a) == (a.batches * a.num_epochs) \div a.gradient_accumulation_steps

\* C27: when train() of a fresh trainer completes, global_step equals the
\* total planned steps len(train_loader) * num_epochs //
\* gradient_accumulation_steps given to the schedule.
C27_GlobalStepReachesTotalSteps ==
    t_pc = "done" => global_step = TotalSteps(t_args)


\* the cumulative softmax probability of sorted ranks 0..r is <= top_p
CumAtMost(l, top_p, perm, r) ==
    LET cum == CumSum(SortedW(l, perm))
    IN  cum[r] * top_p[2] <= top_p[1] * cum[VocabSize - 1]

\* C28: with top_p < 1 the token at sorted rank r is kept, with its logit,
\* if and only if r = 0 or the cumulative probability of ranks 0..r-1 is
\* <= top_p; every other token has -infinity at its vocabulary index.
C28_TopPKeepsSmallestExceedingPrefix ==
    (gen_pc = "sample" /\ LessOne(args.top_p)) =>
        \A i \in Rows : \A r \in Ranks :
            LET t == logits[i].perm[r]
                kept == r = 0 \/ CumAtMost(logits[i].topk, args.top_p,
                                           logits[i].perm, r - 1)
            IN  /\ kept => logits[i].final[t] = logits[i].topk[t]
                /\ ~kept => logits[i].final[t] = NegInf
                /\ (logits[i].final[t] # NegInf) <=> kept

\* top_p = 0.9 on three finite logits: the two largest, which are not the
\* first two of the vocabulary, are kept and token 0 is removed.
C28_Witness ==
    /\ gen_pc = "sample"
    /\ args.top_p = <<9, 10>>
    /\ args.top_k = 0
    /\ Cardinality(Support(logits[1].topk)) = 3
    /\ logits[1].final[0] = NegInf
    /\ Support(logits[1].final) = {1, 2}
    /\ logits[1].perm[2] = 0


\* what holds of generate at every point of a call with temperature > 0:
\* no error; each row is its prompt followed by one token per completed
\* iteration; at most max_new_tokens iterations; the logits of a forward
\* pass are those of the last max_length tokens at most; on return k >= 1 unless
\* max_new_tokens = 0, and k < max_new_tokens only if every row's last
\* token is the end token.
GenerateContract ==
    LET k == n_iter
    IN  /\ gen_pc # "error"
        /\ k <= args.max_new_tokens
        /\ \A i \in Rows :
              /\ Len(input_ids[i]) = Len(args.input_ids[i]) + k
              /\ SubSeq(input_ids[i], 1, Len(args.input_ids[i])) = args.input_ids[i]
              /\ gen_pc = "filter" =>
                    LET n == IF Len(input_ids[i]) <= MaxLength
                               THEN Len(input_ids[i]) ELSE MaxLength
                        ctx == SubSeq(input_ids[i], Len(input_ids[i]) - n + 1,
                                      Len(input_ids[i]))
                    IN  raw_logits[i] = Forward(weights, ctx)
        /\ gen_pc = "done" =>
              /\ args.max_new_tokens > 0 => k >= 1
              /\ k < args.max_new_tokens =>
                    /\ args.eos_token_id # NoEos
                    /\ \A i \in Rows : input_ids[i][Len(input_ids[i])] = args.eos_token_id

\* C29: for every prompt, max_new_tokens >= 0, temperature > 0 and sampler
\* outcome, generate terminates and returns the prompt followed by k new
\* tokens per row, 1 <= k <= max_new_tokens (0 only for max_new_tokens = 0),
\* with k < max_new_tokens only if every row's last token is the end token;
\* no forward pass is given more than max_length tokens.
C29_GenerateTerminatesWithinBudget ==
    /\ [](args.temperature[1] > 0 => GenerateContract)
    /\ <>(gen_pc = "done")

\* a call on two rows returned before max_new_tokens tokens were sampled:
\* both rows end with the end token.
C29_Witness ==
    /\ gen_pc = "done"
    /\ Len(input_ids) = 2
    /\ Len(args.input_ids[1]) = MaxCtx
    /\ args.max_new_tokens = MaxNewTokens
    /\ n_iter = MaxNewTokens - 1
    /\ \A i \in Rows : input_ids[i][Len(input_ids[i])] = args.eos_token_id


\* C30: train() uses every hyperparameter value the caller passes, the
\* value 0 included: warmup_steps = 0 builds a schedule with zero warmup
\* steps.
C30_PassedValuesAreUsed ==
    hp_pc = "resolved" =>
       \A k \in HyperParams : hp_in[k] # None => hp_out[k] = hp_in[k]

\* the row of the last call, as the call left it
RowAfter == users[last.email]

CodeAccepted(u, code, t) ==
    /\ u.exists
    /\ ~u.is_verified
    /\ u.verification_code # None
    /\ u.verification_code = code
    /\ u.verification_code_expires # None
    /\ u.verification_code_expires >= t

C22_EmptyDatasetSurfacedToCaller ==
    \A r \in RunRequests :
       thread[r].result = "empty" =>
          /\ req[r] = "dataset_empty"
          /\ run[r].micro = 0 /\ run[r].opt = 0 /\ run[r].saved = {}

\* what a run has done: its batches, its optimizer steps, its checkpoints
Progress(r) == <<run[r].micro, run[r].opt, run[r].saved>>

\* C23: once a step of a run has raised, the run executes no further batch
\* or optimizer step and writes no checkpoint, so those it wrote stay as
\* they are; is_training then returns to False, and a start request made
\* while is_training is False and a model is loaded is not turned away as
\* already training.
C23_FailedRunEndsAndReleases ==
    /\ [][\A r \in RunRequests :
             run[r].failed => /\ Progress(r)' = Progress(r)
                              /\ run'[r].failed
                              /\ run'[r].at \in {"except", "ended"}]_vars
    /\ \A r \in RunRequests : run[r].failed ~> ~is_training
    /\ [][\A r \in RunRequests :
             (~is_training /\ model_loaded /\ req[r] = "none" /\ req'[r] # "none")
                => req'[r] \in {"accepted", "no_file"}]_vars

\* a run failed after an optimizer step and a checkpoint, its thread has
\* left through `finally`, and is_training is False again
C23_Witness ==
    \E r \in RunRequests :
       /\ run[r].failed
       /\ run[r].at = "ended"
       /\ thread[r].result = "error"
       /\ run[r].opt >= 1
       /\ run[r].saved # {}
       /\ ~is_training

\* C24: while test_generation_handler is inside model.generate, no run
\* executes a batch on the same model.
C24_NoBatchWhileGenerating ==
    [][generating => \A r \in RunRequests : run'[r].micro = run[r].micro]_vars

====
